---- MODULE Spec2Model ----
(***************************************************************************)
(* Model of the linuxtorouter services: the iptables mutation coordinator  *)
(* (internal/services/iptables.go), the route and policy-rule snapshot /   *)
(* replay code (iproute.go, iprule.go) and the persistence engine          *)
(* (persist.go), together with the part of cmd/server/main.go that runs    *)
(* the startup restore.  The kernel and the command line tools are the     *)
(* environment; each service method is one action.                         *)
(***************************************************************************)
EXTENDS Integers, Sequences, FiniteSets, TLC

VARIABLES
    chain,      \* firewall: the rule specifications of the chain, in order
    fwOp,       \* firewall: record of the last coordinator call
    kroutes,    \* routes: the kernel's routing tables, a set of route records
    devs,       \* routes: the network interfaces that exist
    routeFiles, \* routes: <configDir>/routes/<table>.conf, per table
    rtOp,       \* routes: record of the last route service call
    rtScen,     \* routes: progress of a save / flush / replay / replay / save run
    krules,     \* rules: the kernel's policy rules, a set of rule records
    ruleFile,   \* rules: <configDir>/rules/ip-rules.conf
    rlOp,       \* rules: record of the last rule service call
    pc,         \* startup: where main() is ("off" when the server is not modelled)
    fwFile,     \* startup: <configDir>/iptables/rules.v4
    restoreOp,  \* startup: what RestoreAll ran and returned, and how often
    served,     \* startup: requests served so far
    fs,         \* archive: the file system, a set of entries with absolute paths
    archive,    \* archive: the headers (with content) of the archive at hand
    arOp,       \* archive: record of the last archive operation
    arScen,     \* archive: progress of an export / empty / import run
    fnIn,       \* parsers and builders: the input at hand
    fnOut,      \* parsers and builders: the result, once the function has run
    tbl,        \* chains: the chains of one iptables table, each with its rules
    tblOp,      \* chains: record of the last chain operation
    reqs,       \* requests: the HTTP requests in flight, each with its listing
    life        \* lifecycle: where main() and the save requests are

fwVars == <<chain, fwOp>>
rtVars == <<kroutes, devs, routeFiles, rtOp, rtScen>>
rlVars == <<krules, ruleFile, rlOp>>
stVars == <<pc, fwFile, restoreOp, served>>
arVars == <<fs, archive, arOp, arScen>>
pfVars == <<fnIn, fnOut>>
tbVars == <<tbl, tblOp>>
cqVars == <<reqs>>
lcVars == <<life>>
xtVars == <<pfVars, tbVars, cqVars, lcVars>>
vars == <<fwVars, rtVars, rlVars, stVars, arVars, xtVars>>

(***************************************************************************)
(* Generic helpers                                                         *)
(***************************************************************************)
RemoveAt(s, i) == [j \in 1..(Len(s) - 1) |-> IF j < i THEN s[j] ELSE s[j + 1]]

InsertAt(s, i, x) ==
    [j \in 1..(Len(s) + 1) |-> IF j < i THEN s[j] ELSE IF j = i THEN x ELSE s[j - 1]]

\* strings.HasPrefix
HasPrefix(s, p) == Len(s) >= Len(p) /\ SubSeq(s, 1, Len(p)) = p

\* strings.Split(s, sep) for a one-character separator: the pieces between
\* consecutive separators.
Split(s, sep) ==
    LET IsSep(i) == SubSeq(s, i, i) = sep
        at == SelectSeq([i \in 1..Len(s) |-> i], IsSep)
    IN  [n \in 1..(Len(at) + 1) |->
            SubSeq(s, (IF n = 1 THEN 0 ELSE at[n - 1]) + 1,
                      (IF n > Len(at) THEN Len(s) + 1 ELSE at[n]) - 1)]

NonEmpty(t) == t # ""

\* strings.Fields: the maximal runs of non-space characters.
Fields(s) == SelectSeq(Split(s, " "), NonEmpty)

RECURSIVE JoinFrom(_, _, _)
JoinFrom(parts, sep, i) ==
    IF i > Len(parts) THEN ""
    ELSE IF i = Len(parts) THEN parts[i]
    ELSE parts[i] \o sep \o JoinFrom(parts, sep, i + 1)

\* strings.Join
Join(parts, sep) == JoinFrom(parts, sep, 1)

\* bufio.Scanner over a text: its lines ("" has none; one trailing newline
\* ends the last line instead of starting an empty one).
ScanLines(text) ==
    IF text = "" THEN <<>>
    ELSE LET ls == Split(text, "\n")
         IN  IF ls[Len(ls)] = "" THEN SubSeq(ls, 1, Len(ls) - 1) ELSE ls

\* strings.TrimSpace for text padded with spaces.
TrimSpace(s) ==
    LET IsInk(i) == SubSeq(s, i, i) # " "
        ink == SelectSeq([i \in 1..Len(s) |-> i], IsInk)
    IN  IF ink = <<>> THEN "" ELSE SubSeq(s, ink[1], ink[Len(ink)])

DigitChars == <<"0", "1", "2", "3", "4", "5", "6", "7", "8", "9">>

DigitVal(c) == (CHOOSE d \in 1..10 : DigitChars[d] = c) - 1

IsDigits(s) ==
    /\ s # ""
    /\ \A i \in 1..Len(s) : \E d \in 1..10 : DigitChars[d] = SubSeq(s, i, i)

RECURSIVE AtoiFrom(_, _, _)
AtoiFrom(s, i, acc) ==
    IF i > Len(s) THEN acc
    ELSE AtoiFrom(s, i + 1, acc * 10 + DigitVal(SubSeq(s, i, i)))

\* strconv.Atoi on an unsigned decimal; the callers drop its error, which
\* leaves 0.
Atoi(s) == IF IsDigits(s) THEN AtoiFrom(s, 1, 0) ELSE 0

\* strconv.Itoa
Itoa(n) == ToString(n)

(***************************************************************************)
(* Firewall domain: one chain of one table, addressed by position.         *)
(***************************************************************************)
\* Longest chain explored.
MaxChain == 4
\* The rule specifications (match fields + target) rules are drawn from.
RuleSpecs == {"-p tcp --dport 22 -j ACCEPT", "-j DROP"}

\* iptables -D <chain> <num>: the kernel side of one delete invocation.
\* The tool rejects a position that is not in the chain, and may fail for
\* reasons of its own (toolOk = FALSE: lock held, permission); a failed
\* invocation changes nothing.
IptablesDelete(c, num, toolOk) ==
    IF toolOk /\ num >= 1 /\ num <= Len(c)
    THEN [ok |-> TRUE, chain |-> RemoveAt(c, num)]
    ELSE [ok |-> FALSE, chain |-> c]

\* iptables -I <chain> <num> <spec> / iptables -A <chain> <spec>.
IptablesInsert(c, num, spec, toolOk) ==
    IF ~toolOk THEN [ok |-> FALSE, chain |-> c]
    ELSE IF num = 0 THEN [ok |-> TRUE, chain |-> Append(c, spec)]
    ELSE IF num >= 1 /\ num <= Len(c) + 1
         THEN [ok |-> TRUE, chain |-> InsertAt(c, num, spec)]
         ELSE [ok |-> FALSE, chain |-> c]

\* GetChain: list the chain and parse it; every rule carries its 1-based Num.
GetChain(c) == [Rules |-> [i \in 1..Len(c) |-> [Num |-> i, Spec |-> c[i]]]]

\* DeleteRule(table, chain, ruleNum): one -D invocation, error surfaced.
DeleteRule(c, ruleNum, toolOk) ==
    LET r == IptablesDelete(c, ruleNum, toolOk)
    IN  [chain |-> r.chain,
         err   |-> IF r.ok THEN "nil" ELSE "failed to delete rule",
         cmds  |-> <<[op |-> "D", num |-> ruleNum, spec |-> ""]>>]

\* AddRule(input): -I at input.Position when it is > 0, else -A.
AddRule(c, spec, position, toolOk) ==
    LET r == IptablesInsert(c, IF position > 0 THEN position ELSE 0, spec, toolOk)
    IN  [chain |-> r.chain,
         err   |-> IF r.ok THEN "nil" ELSE "failed to add rule",
         cmds  |-> <<[op |-> IF position > 0 THEN "I" ELSE "A",
                      num |-> position, spec |-> spec]>>]

\* A MoveRule that swallows the delete's failure.
MoveRuleIgnoringDeleteError(c, fromPos, toPos, fail) ==
    LET d == DeleteRule(c, fromPos, fail # "delete")
    IN  [chain |-> d.chain, err |-> "nil",
         cmds |-> <<[op |-> "L", num |-> 0, spec |-> ""]>> \o d.cmds]

\* MoveRule(table, chain, fromPos, toPos) as the code has it: list, check the
\* source position, delete at the source, adjust toPos, return nil.  No
\* insert follows the delete.  fail names the invocation the tool fails, if
\* any ("list", "delete" or "none").
MoveRule(c, fromPos, toPos, fail) ==
    LET listCmd == [op |-> "L", num |-> 0, spec |-> ""]
        chainInfo == GetChain(c)
    IN  IF fail = "list"
        THEN [chain |-> c, err |-> "failed to get chain", cmds |-> <<listCmd>>]
        ELSE IF fromPos < 1 \/ fromPos > Len(chainInfo.Rules)
        THEN [chain |-> c, err |-> "invalid source position", cmds |-> <<listCmd>>]
        ELSE LET d == DeleteRule(c, fromPos, fail # "delete")
             IN  IF d.err # "nil"
                 THEN [chain |-> d.chain, err |-> d.err, cmds |-> <<listCmd>> \o d.cmds]
                 ELSE [chain |-> d.chain, err |-> "nil", cmds |-> <<listCmd>> \o d.cmds]

IdleFw ==
    /\ chain = <<>>
    /\ fwOp = [op |-> "none", from |-> 0, to |-> 0, pre |-> <<>>,
               err |-> "nil", cmds |-> <<>>, delOk |-> TRUE]

FwAddRule ==
    \E spec \in RuleSpecs, position \in 0..MaxChain, toolOk \in BOOLEAN :
        /\ Len(chain) < MaxChain
        /\ LET r == AddRule(chain, spec, position, toolOk)
           IN  /\ chain' = r.chain
               /\ fwOp' = [op |-> "add", from |-> 0, to |-> position, pre |-> <<>>,
                           err |-> r.err, cmds |-> r.cmds, delOk |-> TRUE]
        /\ UNCHANGED <<rtVars, rlVars, stVars, arVars, xtVars>>

FwDeleteRule ==
    \E ruleNum \in 1..MaxChain, toolOk \in BOOLEAN :
        LET r == DeleteRule(chain, ruleNum, toolOk)
        IN  /\ chain' = r.chain
            /\ fwOp' = [op |-> "delete", from |-> ruleNum, to |-> 0, pre |-> <<>>,
                        err |-> r.err, cmds |-> r.cmds, delOk |-> toolOk]
            /\ UNCHANGED <<rtVars, rlVars, stVars, arVars, xtVars>>

FwMoveRule ==
    \E fromPos \in 0..(MaxChain + 1), toPos \in 0..(MaxChain + 1),
       fail \in {"none", "list", "delete"} :
        LET r == MoveRule(chain, fromPos, toPos, fail)
        IN  /\ chain' = r.chain
            /\ fwOp' = [op |-> "move", from |-> fromPos, to |-> toPos, pre |-> chain,
                        err |-> r.err, cmds |-> r.cmds, delOk |-> (fail # "delete")]
            /\ UNCHANGED <<rtVars, rlVars, stVars, arVars, xtVars>>

(***************************************************************************)
(* Route domain: the kernel's tables, "ip route", and the per-table files.  *)
(***************************************************************************)
\* Most routes alive at once.
MaxRoutes == 3

RouteTables == {"main", "custom1", "local"}
\* os.ReadDir returns the entries sorted by file name.
ReadDirOrder == <<"custom1", "local", "main">>
AllDevs == {"eth0", "eth1"}

Metrics == {0, 100}

KRoute(type, dst, gw, dev, metric, proto, scope, table, src) ==
    [Type |-> type, Dst |-> dst, Gateway |-> gw, Dev |-> dev, Metric |-> metric,
     Proto |-> proto, Scope |-> scope, Table |-> table, Src |-> src]

\* Routes the kernel itself installs when an address is configured.
KernelRoutes ==
    { KRoute("unicast", "10.0.0.0/24", "", "eth0", 0, "kernel", "link", "main", "10.0.0.2"),
      KRoute("local", "10.0.0.2", "", "eth0", 0, "kernel", "host", "local", "10.0.0.2"),
      KRoute("broadcast", "10.0.0.255", "", "eth0", 0, "kernel", "link", "local", "10.0.0.2") }

\* Routes an administrator adds outside this program.
AdminRoutes ==
    { KRoute("unreachable", "10.9.0.0/16", "", "", 0, "boot", "global", "main", "") }

\* The intents the route handler passes to AddRoute.
RouteInputs ==
    { [Destination |-> "default", Gateway |-> "10.0.0.1", Interface |-> "eth0",
       Metric |-> 100, Table |-> ""],
      [Destination |-> "192.168.5.0/24", Gateway |-> "10.0.0.1", Interface |-> "eth0",
       Metric |-> 0, Table |-> "custom1"],
      [Destination |-> "172.16.0.0/16", Gateway |-> "", Interface |-> "eth1",
       Metric |-> 0, Table |-> "main"] }

TypeKeywords == {"unreachable", "local", "broadcast", "blackhole", "prohibit"}

\* The order in which "ip route show table all" prints: by table, then by
\* destination, then by metric.
TableRank(t) == CASE t = "main" -> 1 [] t = "custom1" -> 2 [] OTHER -> 3
DstRank(d) ==
    CASE d = "default" -> 1 [] d = "10.0.0.0/24" -> 2 [] d = "10.0.0.2" -> 3
      [] d = "10.0.0.255" -> 4 [] d = "10.9.0.0/16" -> 5 [] d = "172.16.0.0/16" -> 6
      [] OTHER -> 7
RouteRank(r) == TableRank(r.Table) * 1000 + DstRank(r.Dst) * 10 + (IF r.Metric = 0 THEN 0 ELSE 1)

RECURSIVE SortRoutes(_)
SortRoutes(k) ==
    IF k = {} THEN <<>>
    ELSE LET r == CHOOSE x \in k : \A y \in k : RouteRank(x) <= RouteRank(y)
         IN  <<r>> \o SortRoutes(k \ {r})

\* One line of "ip route show table all" (iproute2's print_route): the type
\* unless unicast, the destination, then via / dev / table (unless main) /
\* proto (unless boot) / scope (unless global) / src / metric (unless 0).
RouteLine(r) ==
    (IF r.Type # "unicast" THEN r.Type \o " " ELSE "")
    \o r.Dst
    \o (IF r.Gateway # "" THEN " via " \o r.Gateway ELSE "")
    \o (IF r.Dev # "" THEN " dev " \o r.Dev ELSE "")
    \o (IF r.Table # "main" THEN " table " \o r.Table ELSE "")
    \o (IF r.Proto # "boot" THEN " proto " \o r.Proto ELSE "")
    \o (IF r.Scope # "global" THEN " scope " \o r.Scope ELSE "")
    \o (IF r.Src # "" THEN " src " \o r.Src ELSE "")
    \o (IF r.Metric # 0 THEN " metric " \o ToString(r.Metric) ELSE "")

\* Output of "ip route show table all" for the kernel state k.
ListAllOutput(k) ==
    LET rs == SortRoutes(k)
    IN  Join([i \in 1..Len(rs) |-> RouteLine(rs[i]) \o " "], "\n")

\* parseRouteLine's loop over parts[i..]: keyword/value pairs, a keyword
\* without a value and any other token are stepped over.
\* A key/value scan that gives up at the first token it does not know.
RECURSIVE ParseRouteKVUntilUnknown(_, _, _)
ParseRouteKVUntilUnknown(parts, i, route) ==
    IF i > Len(parts) THEN route
    ELSE IF i + 1 <= Len(parts) /\ parts[i] = "via"
         THEN ParseRouteKVUntilUnknown(parts, i + 2, [route EXCEPT !.Gateway = parts[i + 1]])
    ELSE IF i + 1 <= Len(parts) /\ parts[i] = "dev"
         THEN ParseRouteKVUntilUnknown(parts, i + 2, [route EXCEPT !.Interface = parts[i + 1]])
    ELSE IF i + 1 <= Len(parts) /\ parts[i] = "proto"
         THEN ParseRouteKVUntilUnknown(parts, i + 2, [route EXCEPT !.Protocol = parts[i + 1]])
    ELSE IF i + 1 <= Len(parts) /\ parts[i] = "scope"
         THEN ParseRouteKVUntilUnknown(parts, i + 2, [route EXCEPT !.Scope = parts[i + 1]])
    ELSE IF i + 1 <= Len(parts) /\ parts[i] = "src"
         THEN ParseRouteKVUntilUnknown(parts, i + 2, [route EXCEPT !.Source = parts[i + 1]])
    ELSE IF i + 1 <= Len(parts) /\ parts[i] = "metric"
         THEN ParseRouteKVUntilUnknown(parts, i + 2,
                                       [route EXCEPT !.Metric = Atoi(parts[i + 1])])
    ELSE IF i + 1 <= Len(parts) /\ parts[i] = "table"
         THEN ParseRouteKVUntilUnknown(parts, i + 2, [route EXCEPT !.Table = parts[i + 1]])
    ELSE route

\* parseRouteLine's loop over the tokens after the first: a known keyword takes
\* the next token as its value, anything else is stepped over.
RECURSIVE ParseRouteKV(_, _, _)
ParseRouteKV(parts, i, route) ==
    IF i > Len(parts) THEN route
    ELSE IF i + 1 <= Len(parts) /\ parts[i] = "via"
         THEN ParseRouteKV(parts, i + 2, [route EXCEPT !.Gateway = parts[i + 1]])
    ELSE IF i + 1 <= Len(parts) /\ parts[i] = "dev"
         THEN ParseRouteKV(parts, i + 2, [route EXCEPT !.Interface = parts[i + 1]])
    ELSE IF i + 1 <= Len(parts) /\ parts[i] = "proto"
         THEN ParseRouteKV(parts, i + 2, [route EXCEPT !.Protocol = parts[i + 1]])
    ELSE IF i + 1 <= Len(parts) /\ parts[i] = "scope"
         THEN ParseRouteKV(parts, i + 2, [route EXCEPT !.Scope = parts[i + 1]])
    ELSE IF i + 1 <= Len(parts) /\ parts[i] = "src"
         THEN ParseRouteKV(parts, i + 2, [route EXCEPT !.Source = parts[i + 1]])
    ELSE IF i + 1 <= Len(parts) /\ parts[i] = "metric"
         THEN ParseRouteKV(parts, i + 2, [route EXCEPT !.Metric = Atoi(parts[i + 1])])
    ELSE IF i + 1 <= Len(parts) /\ parts[i] = "table"
         THEN ParseRouteKV(parts, i + 2, [route EXCEPT !.Table = parts[i + 1]])
    ELSE ParseRouteKV(parts, i + 1, route)

\* strings.SplitN(s, " ", 2)
SplitN2(s) ==
    LET ps == Split(s, " ")
    IN  IF Len(ps) <= 1 THEN ps
        ELSE <<ps[1], SubSeq(s, Len(ps[1]) + 2, Len(s))>>

\* parseRouteLine(line, defaultTable), for a line with at least one field.
\* Destination is the first field; the type test looks at Destination alone,
\* which holds no space, so a type keyword becomes both Type and Destination.
parseRouteLine(line, defaultTable) ==
    LET parts == Fields(line)
        r0 == [Destination |-> parts[1], Gateway |-> "", Interface |-> "",
               Metric |-> 0, Scope |-> "", Protocol |-> "", Type |-> "",
               Table |-> defaultTable, Source |-> ""]
        r1 == ParseRouteKV(parts, 2, r0)
    IN  IF HasPrefix(r1.Destination, "broadcast")
           \/ HasPrefix(r1.Destination, "local")
           \/ HasPrefix(r1.Destination, "unreachable")
        THEN LET typeParts == SplitN2(r1.Destination)
             IN  IF Len(typeParts) > 1
                 THEN [r1 EXCEPT !.Type = typeParts[1], !.Destination = typeParts[2]]
                 ELSE [r1 EXCEPT !.Type = typeParts[1]]
        ELSE r1

NonBlankLine(l) == TrimSpace(l) # ""

\* parseRouteOutput(output, defaultTable): one Route per non-blank line.
parseRouteOutput(output, defaultTable) ==
    LET ls == SelectSeq(ScanLines(output), NonBlankLine)
    IN  [i \in 1..Len(ls) |-> parseRouteLine(TrimSpace(ls[i]), defaultTable)]

\* The route a successful AddRoute(input) leaves in the kernel.
InputRoute(input) ==
    KRoute("unicast", input.Destination, input.Gateway, input.Interface, input.Metric,
           "boot", IF input.Gateway = "" THEN "link" ELSE "global",
           IF input.Table = "" THEN "main" ELSE input.Table, "")

\* Every route the kernel can hold in this model.
RouteUniverse == KernelRoutes \cup AdminRoutes \cup {InputRoute(i) : i \in RouteInputs}

\* parseRouteLine applied to the line the listing prints for each route; the
\* listing of a kernel state is parsed line by line, so ListAllRoutes is the
\* sorted routes mapped through this table.
ListedRoute == [r \in RouteUniverse |-> parseRouteLine(TrimSpace(RouteLine(r) \o " "), "")]

\* ListAllRoutes: "ip route show table all", parsed with default table "".
ListAllRoutes(k) ==
    LET rs == SortRoutes(k)
    IN  [i \in 1..Len(rs) |-> ListedRoute[rs[i]]]

\* A SaveRoutes filter that looks at the route type only.
SkipRouteByTypeOnly(route) == route.Type = "local" \/ route.Type = "broadcast"

\* SaveRoutes' two "continue" tests.
SkipRoute(route) ==
    \/ route.Protocol = "kernel" /\ (route.Scope = "link" \/ route.Scope = "host")
    \/ route.Type = "local" \/ route.Type = "broadcast"

KeepRoute(route) == ~SkipRoute(route)

\* The line SaveRoutes builds for a route.
RouteCmd(route) ==
    route.Destination
    \o (IF route.Gateway # "" THEN " via " \o route.Gateway ELSE "")
    \o (IF route.Interface # "" THEN " dev " \o route.Interface ELSE "")
    \o (IF route.Metric > 0 THEN " metric " \o Itoa(route.Metric) ELSE "")

SaveTable(route) == IF route.Table = "" THEN "main" ELSE route.Table

NoFile == [exists |-> FALSE, content |-> ""]
FileOf(text) == [exists |-> TRUE, content |-> text]

\* SaveRoutes, first half: list every table, parse, drop the skipped routes
\* and group the built lines by table, in listing order.
TableRoutes(k) ==
    LET routes == SelectSeq(ListAllRoutes(k), KeepRoute)
        cmdsOf(t) == LET mine(r) == SaveTable(r) = t
                         rs == SelectSeq(routes, mine)
                     IN  [i \in 1..Len(rs) |-> RouteCmd(rs[i])]
    IN  [t \in {SaveTable(routes[i]) : i \in 1..Len(routes)} |-> cmdsOf(t)]

\* SaveRoutes, second half: one WriteFile per table of the map.  failT: the
\* table whose WriteFile fails ("" for none); before: the tables written
\* ahead of failT (Go ranges over the map in no fixed order).
WriteRouteFiles(tableRoutes, files, failT, before) ==
    LET tables == DOMAIN tableRoutes
        written == IF failT \in tables THEN (before \cap tables) \ {failT} ELSE tables
    IN  [files |-> [t \in RouteTables |->
                       IF t \in written THEN FileOf(Join(tableRoutes[t], "\n"))
                       ELSE files[t]],
         err |-> IF failT \in tables THEN "failed to save routes for table" ELSE "nil"]

ValueAfter(parts, kw) ==
    IF \E i \in 1..(Len(parts) - 1) : parts[i] = kw
    THEN parts[(CHOOSE i \in 1..(Len(parts) - 1) : parts[i] = kw) + 1]
    ELSE ""

\* "ip route add <args>": what the tool and the kernel do with one add.
\* A type keyword must be followed by a prefix; a named device must exist; a
\* unicast route needs a gateway or a device; the key (table, prefix, metric)
\* must be free, else the kernel answers "File exists".
IpRouteAdd(k, ds, args) ==
    LET typed == Len(args) >= 1 /\ args[1] \in TypeKeywords
        rest == IF typed THEN Tail(args) ELSE args
        type == IF typed THEN args[1] ELSE "unicast"
        dst == IF Len(rest) >= 1 THEN rest[1] ELSE ""
        gw == ValueAfter(rest, "via")
        dev == ValueAfter(rest, "dev")
        table == IF ValueAfter(rest, "table") = "" THEN "main" ELSE ValueAfter(rest, "table")
        metric == Atoi(ValueAfter(rest, "metric"))
        new == KRoute(type, dst, gw, dev, metric, "boot",
                      IF type = "unicast" /\ gw = "" THEN "link" ELSE "global", table, "")
    IN  IF dst = "" \/ dst \in {"via", "dev", "table", "metric"}
        THEN [k |-> k, result |-> "incomplete"]
        ELSE IF dev # "" /\ dev \notin ds THEN [k |-> k, result |-> "nodev"]
        ELSE IF type = "unicast" /\ gw = "" /\ dev = "" THEN [k |-> k, result |-> "invalid"]
        ELSE IF \E r \in k : r.Table = table /\ r.Dst = dst /\ r.Metric = metric
             THEN [k |-> k, result |-> "exists"]
        ELSE [k |-> k \cup {new}, result |-> "ok"]

\* AddRoute(input): validate, build the argument list, run it.
AddRoute(k, ds, input) ==
    IF input.Destination = "" THEN [k |-> k, err |-> "destination is required"]
    ELSE LET args == <<input.Destination>>
                     \o (IF input.Gateway # "" THEN <<"via", input.Gateway>> ELSE <<>>)
                     \o (IF input.Interface # "" THEN <<"dev", input.Interface>> ELSE <<>>)
                     \o (IF input.Metric > 0 THEN <<"metric", Itoa(input.Metric)>> ELSE <<>>)
                     \o (IF input.Table # "" /\ input.Table # "main"
                         THEN <<"table", input.Table>> ELSE <<>>)
             r == IpRouteAdd(k, ds, args)
         IN  [k |-> r.k, err |-> IF r.result = "ok" THEN "nil" ELSE "failed to add route"]

\* "ip route del <destination> [via gw] [dev if] [table t]".
DeleteRoute(k, destination, gateway, iface, table) ==
    LET t == IF table = "" THEN "main" ELSE table
        hit == {r \in k : /\ r.Dst = destination /\ r.Table = t /\ r.Type = "unicast"
                          /\ (gateway = "" \/ r.Gateway = gateway)
                          /\ (iface = "" \/ r.Dev = iface)}
    IN  IF hit = {} THEN [k |-> k, err |-> "failed to delete route"]
        ELSE [k |-> k \ {CHOOSE r \in hit : \A y \in hit : RouteRank(r) <= RouteRank(y)},
              err |-> "nil"]

ReplayLine(l) == TrimSpace(l) # "" /\ ~HasPrefix(TrimSpace(l), "#")

\* The adds RestoreRoutes runs for one table file, in order, from line i on;
\* log: what has been run so far.  The exit status of every add is dropped.
RECURSIVE ReplayRouteLines(_, _, _, _, _, _)
ReplayRouteLines(k, ds, table, ls, i, log) ==
    IF i > Len(ls) THEN [k |-> k, log |-> log]
    ELSE LET args == Fields(TrimSpace(ls[i]))
                     \o (IF table # "main" THEN <<"table", table>> ELSE <<>>)
         IN  CHOOSE done \in
                 { ReplayRouteLines(r.k, ds, table, ls, i + 1,
                       Append(log, [domain |-> "routes", kind |-> "add",
                                    cmd |-> Join(args, " "), result |-> r.result]))
                   : r \in {IpRouteAdd(k, ds, args)} } : TRUE

\* RestoreRoutes over the files in ReadDir order, from file j on.  A file that
\* cannot be read is stepped over.
RECURSIVE RestoreRouteFiles(_, _, _, _, _, _)
RestoreRouteFiles(k, ds, files, unreadable, j, log) ==
    IF j > Len(ReadDirOrder) THEN [k |-> k, log |-> log]
    ELSE LET t == ReadDirOrder[j]
         IN  CHOOSE done \in
                 { RestoreRouteFiles(this.k, ds, files, unreadable, j + 1, this.log)
                   : this \in
                       { IF ~files[t].exists THEN [k |-> k, log |-> log]
                         ELSE IF t \in unreadable
                         THEN [k |-> k,
                               log |-> Append(log, [domain |-> "routes", kind |-> "read",
                                                    cmd |-> t \o ".conf",
                                                    result |-> "unreadable"])]
                         ELSE ReplayRouteLines(k, ds, t,
                                  SelectSeq(ScanLines(files[t].content), ReplayLine),
                                  1, log) } } : TRUE

\* RestoreRoutes.  readDirErr: ReadDir fails with an error other than "does not
\* exist"; unreadable: the table files whose ReadFile fails.
RestoreRoutes(k, ds, files, readDirErr, unreadable) ==
    IF readDirErr THEN [k |-> k, log |-> <<>>, err |-> "open routes: permission denied"]
    ELSE CHOOSE done \in
             { [k |-> r.k, log |-> r.log, err |-> "nil"]
               : r \in {RestoreRouteFiles(k, ds, files, unreadable, 1, <<>>)} } : TRUE

NoScen == [phase |-> 0, orig |-> [t \in RouteTables |-> NoFile]]

IdleRt ==
    /\ kroutes = {}
    /\ devs = AllDevs
    /\ routeFiles = [t \in RouteTables |-> NoFile]
    /\ rtOp = [op |-> "none", err |-> "nil", pre |-> [t \in RouteTables |-> NoFile]]
    /\ rtScen = NoScen

NoPre == [t \in RouteTables |-> NoFile]

\* The kernel or an administrator installs a route.
RtEnvAdd ==
    \E r \in KernelRoutes \cup AdminRoutes :
        /\ Cardinality(kroutes) < MaxRoutes
        /\ ~(\E x \in kroutes : x.Table = r.Table /\ x.Dst = r.Dst /\ x.Metric = r.Metric)
        /\ kroutes' = kroutes \cup {r}
        /\ rtOp' = [op |-> "env", err |-> "nil", pre |-> NoPre]
        /\ rtScen' = NoScen
        /\ UNCHANGED <<devs, routeFiles, fwVars, rlVars, stVars, arVars, xtVars>>

RtAddRoute ==
    \E input \in RouteInputs :
        /\ Cardinality(kroutes) < MaxRoutes
        /\ LET r == AddRoute(kroutes, devs, input)
           IN  /\ kroutes' = r.k
               /\ rtOp' = [op |-> "add", err |-> r.err, pre |-> NoPre]
        /\ rtScen' = NoScen
        /\ UNCHANGED <<devs, routeFiles, fwVars, rlVars, stVars, arVars, xtVars>>

RtDeleteRoute ==
    \E x \in kroutes :
        /\ LET r == DeleteRoute(kroutes, x.Dst, x.Gateway, x.Dev, x.Table)
           IN  /\ kroutes' = r.k
               /\ rtOp' = [op |-> "delete", err |-> r.err, pre |-> NoPre]
        /\ rtScen' = NoScen
        /\ UNCHANGED <<devs, routeFiles, fwVars, rlVars, stVars, arVars, xtVars>>

\* "ip route flush" of every table, or a reboot: the tables are empty.
RtFlush ==
    /\ kroutes # {}
    /\ kroutes' = {}
    /\ rtOp' = [op |-> "flush", err |-> "nil", pre |-> NoPre]
    /\ rtScen' = IF rtScen.phase \in {1, 5}
                 THEN [phase |-> 2, orig |-> routeFiles]
                 ELSE NoScen
    /\ UNCHANGED <<devs, routeFiles, fwVars, rlVars, stVars, arVars, xtVars>>

RtSaveRoutes ==
    LET tableRoutes == TableRoutes(kroutes) IN
    \E listOk \in BOOLEAN, failT \in RouteTables \cup {""}, before \in {{}, RouteTables} :
        /\ (failT = "" => before = {})
        /\ (~listOk => failT = "")
        /\ LET r == IF ~listOk
                    THEN [files |-> routeFiles, err |-> "failed to list all routes"]
                    ELSE WriteRouteFiles(tableRoutes, routeFiles, failT, before)
           IN  /\ routeFiles' = r.files
               /\ rtOp' = [op |-> "save", err |-> r.err, pre |-> routeFiles]
               /\ rtScen' = IF r.err # "nil" THEN NoScen
                            ELSE IF rtScen.phase = 4
                                 THEN [phase |-> 5, orig |-> rtScen.orig]
                                 ELSE [phase |-> 1, orig |-> r.files]
        /\ UNCHANGED <<kroutes, devs, fwVars, rlVars, stVars, arVars, xtVars>>

RtRestoreRoutes ==
    \E readDirErr \in BOOLEAN, unreadable \in SUBSET {"main"} :
        /\ (readDirErr => unreadable = {})
        /\ LET r == RestoreRoutes(kroutes, devs, routeFiles, readDirErr, unreadable)
           IN  /\ kroutes' = r.k
               /\ rtOp' = [op |-> "restore", err |-> r.err, pre |-> NoPre]
               /\ rtScen' = IF readDirErr \/ unreadable # {} \/ r.err # "nil" THEN NoScen
                            ELSE IF rtScen.phase \in {2, 3}
                                 THEN [rtScen EXCEPT !.phase = @ + 1]
                                 ELSE NoScen
        /\ UNCHANGED <<devs, routeFiles, fwVars, rlVars, stVars, arVars, xtVars>>

(***************************************************************************)
(* Policy-rule domain: the kernel's rule list, "ip rule", and the rule file. *)
(***************************************************************************)
\* Most policy rules alive at once.
MaxRules == 5

KRule(prio, not, from, to, fwmark, iif, oif, table, action) ==
    [Priority |-> prio, Not |-> not, From |-> from, To |-> to, FWMark |-> fwmark,
     IIF |-> iif, OIF |-> oif, Table |-> table, Action |-> action]

\* The three rules the kernel installs at boot.
DefaultRules ==
    { KRule(0, FALSE, "all", "", "", "", "", "local", "lookup"),
      KRule(32766, FALSE, "all", "", "", "", "", "main", "lookup"),
      KRule(32767, FALSE, "all", "", "", "", "", "default", "lookup") }

\* The intents the rules handler passes to AddRule.
RuleInputs ==
    { [Priority |-> 100, Not |-> FALSE, From |-> "10.0.0.0/24", To |-> "", FWMark |-> "",
       IIF |-> "", OIF |-> "", Table |-> "custom1"],
      [Priority |-> 100, Not |-> FALSE, From |-> "", To |-> "10.9.0.0/16", FWMark |-> "",
       IIF |-> "eth1", OIF |-> "", Table |-> "custom1"],
      [Priority |-> 200, Not |-> TRUE, From |-> "", To |-> "", FWMark |-> "0x1",
       IIF |-> "", OIF |-> "", Table |-> "main"] }

\* A rule an administrator adds outside this program (no table: an action).
AdminRules ==
    { KRule(32765, FALSE, "all", "10.9.0.0/16", "", "", "", "", "unreachable") }

\* The rule a successful AddRule(input) leaves in the kernel.
InputRule(input) ==
    KRule(input.Priority, input.Not, IF input.From = "" THEN "all" ELSE input.From,
          input.To, input.FWMark, input.IIF, input.OIF, input.Table, "lookup")

RuleUniverse == DefaultRules \cup AdminRules \cup {InputRule(i) : i \in RuleInputs}

\* One line of "ip rule show" (iproute2's print_rule).
RuleLine(r) ==
    ToString(r.Priority) \o ":\t"
    \o (IF r.Not THEN "not " ELSE "")
    \o "from " \o r.From \o " "
    \o (IF r.To # "" THEN "to " \o r.To \o " " ELSE "")
    \o (IF r.FWMark # "" THEN "fwmark " \o r.FWMark \o " " ELSE "")
    \o (IF r.IIF # "" THEN "iif " \o r.IIF \o " " ELSE "")
    \o (IF r.OIF # "" THEN "oif " \o r.OIF \o " " ELSE "")
    \o (IF r.Action = "lookup" THEN "lookup " \o r.Table ELSE r.Action)

\* parseRuleOutput's loop over the selector tokens.
RECURSIVE ParseRuleKV(_, _, _)
ParseRuleKV(parts, i, rule) ==
    IF i > Len(parts) THEN rule
    ELSE IF i + 1 <= Len(parts) /\ parts[i] = "from"
         THEN ParseRuleKV(parts, i + 2, [rule EXCEPT !.From = parts[i + 1]])
    ELSE IF i + 1 <= Len(parts) /\ parts[i] = "to"
         THEN ParseRuleKV(parts, i + 2, [rule EXCEPT !.To = parts[i + 1]])
    ELSE IF i + 1 <= Len(parts) /\ parts[i] = "fwmark"
         THEN ParseRuleKV(parts, i + 2, [rule EXCEPT !.FWMark = parts[i + 1]])
    ELSE IF i + 1 <= Len(parts) /\ parts[i] = "iif"
         THEN ParseRuleKV(parts, i + 2, [rule EXCEPT !.IIF = parts[i + 1]])
    ELSE IF i + 1 <= Len(parts) /\ parts[i] = "oif"
         THEN ParseRuleKV(parts, i + 2, [rule EXCEPT !.OIF = parts[i + 1]])
    ELSE IF i + 1 <= Len(parts) /\ parts[i] = "lookup"
         THEN ParseRuleKV(parts, i + 2,
                          [rule EXCEPT !.Table = parts[i + 1], !.Action = "lookup"])
    ELSE IF parts[i] \in {"unreachable", "blackhole", "prohibit"}
         THEN ParseRuleKV(parts, i + 1, [rule EXCEPT !.Action = parts[i]])
    ELSE IF parts[i] = "not"
         THEN ParseRuleKV(parts, i + 1, [rule EXCEPT !.Not = TRUE])
    ELSE ParseRuleKV(parts, i + 1, rule)

IsSpaceChar(c) == c = " " \/ c = "\t"

\* The regular expression ^(\d+):\s+(.+)$ on a trimmed line: <<digits, rest>>,
\* or <<>> when the line does not match.
MatchRuleLine(line) ==
    LET head == Split(line, ":")[1]
        after == SubSeq(line, Len(head) + 2, Len(line))
        IsInk(i) == ~IsSpaceChar(SubSeq(after, i, i))
        ink == SelectSeq([i \in 1..Len(after) |-> i], IsInk)
    IN  IF /\ Len(head) < Len(line)
           /\ IsDigits(head)
           /\ after # "" /\ IsSpaceChar(SubSeq(after, 1, 1))
           /\ ink # <<>>
        THEN <<head, SubSeq(after, ink[1], Len(after))>>
        ELSE <<>>

\* The IPRule parseRuleOutput builds for a matching line.
parseRuleLine(line) ==
    LET m == MatchRuleLine(TrimSpace(line))
        rule0 == [Priority |-> Atoi(m[1]), Selector |-> m[2], Action |-> "", Table |-> "",
                  From |-> "", To |-> "", FWMark |-> "", IIF |-> "", OIF |-> "",
                  Not |-> FALSE]
    IN  ParseRuleKV(Fields(m[2]), 1, rule0)

\* parseRuleLine applied to the line the listing prints for each rule.
ListedRule == [r \in RuleUniverse |-> parseRuleLine(RuleLine(r))]

\* "ip rule show" prints by ascending priority.
RuleRank(r) ==
    r.Priority * 10 + (IF r.To # "" THEN 1 ELSE 0) + (IF r.Not THEN 2 ELSE 0)

RECURSIVE SortRules(_)
SortRules(k) ==
    IF k = {} THEN <<>>
    ELSE LET r == CHOOSE x \in k : \A y \in k : RuleRank(x) <= RuleRank(y)
         IN  <<r>> \o SortRules(k \ {r})

\* ListRules: "ip rule show", parsed.
ListRules(k) ==
    LET rs == SortRules(k)
    IN  [i \in 1..Len(rs) |-> ListedRule[rs[i]]]

\* A SaveRules test that forgets the main-table default rule.
IsDefaultRuleWithout32766(rule) == rule.Priority = 0 \/ rule.Priority = 32767

\* SaveRules' "skip default rules" test.
IsDefaultRule(rule) ==
    rule.Priority = 0 \/ rule.Priority = 32766 \/ rule.Priority = 32767

NotDefaultRule(rule) == ~IsDefaultRule(rule)

\* The line SaveRules builds for a rule.
RuleSaveLine(rule) ==
    "priority " \o Itoa(rule.Priority)
    \o (IF rule.Not THEN " not" ELSE "")
    \o (IF rule.From # "" /\ rule.From # "all" THEN " from " \o rule.From ELSE "")
    \o (IF rule.To # "" THEN " to " \o rule.To ELSE "")
    \o (IF rule.FWMark # "" THEN " fwmark " \o rule.FWMark ELSE "")
    \o (IF rule.IIF # "" THEN " iif " \o rule.IIF ELSE "")
    \o (IF rule.OIF # "" THEN " oif " \o rule.OIF ELSE "")
    \o (IF rule.Table # "" THEN " lookup " \o rule.Table
        ELSE IF rule.Action # "" THEN " " \o rule.Action ELSE "")

\* IPRuleService.SaveRules.  listOk: the listing succeeds; writeOk: WriteFile
\* succeeds.
SaveRules(k, file, listOk, writeOk) ==
    IF ~listOk THEN [file |-> file, err |-> "failed to list rules"]
    ELSE LET rules == SelectSeq(ListRules(k), NotDefaultRule)
             lines == [i \in 1..Len(rules) |-> RuleSaveLine(rules[i])]
         IN  IF ~writeOk THEN [file |-> file, err |-> "failed to save rules"]
             ELSE [file |-> FileOf(Join(lines, "\n")), err |-> "nil"]

\* "ip rule add <args>": what the tool and the kernel do with one add.  The
\* selector defaults to "from all"; a rule equal to a live one is refused with
\* "File exists".
IpRuleAdd(k, args) ==
    LET action == IF \E i \in 1..Len(args) : args[i] \in {"unreachable", "blackhole", "prohibit"}
                  THEN args[CHOOSE i \in 1..Len(args) :
                                args[i] \in {"unreachable", "blackhole", "prohibit"}]
                  ELSE "lookup"
        from == IF ValueAfter(args, "from") = "" THEN "all" ELSE ValueAfter(args, "from")
        new == KRule(Atoi(ValueAfter(args, "priority")),
                     \E i \in 1..Len(args) : args[i] = "not",
                     from, ValueAfter(args, "to"), ValueAfter(args, "fwmark"),
                     ValueAfter(args, "iif"), ValueAfter(args, "oif"),
                     ValueAfter(args, "lookup"), action)
    IN  IF action = "lookup" /\ new.Table = "" THEN [k |-> k, result |-> "invalid"]
        ELSE IF new \in k THEN [k |-> k, result |-> "exists"]
        ELSE [k |-> k \cup {new}, result |-> "ok"]

\* IPRuleService.AddRule(input): build the argument list, run it.
AddIPRule(k, input) ==
    LET args == (IF input.Priority > 0 THEN <<"priority", Itoa(input.Priority)>> ELSE <<>>)
                \o (IF input.Not THEN <<"not">> ELSE <<>>)
                \o (IF input.From # "" THEN <<"from", input.From>> ELSE <<"from", "all">>)
                \o (IF input.To # "" THEN <<"to", input.To>> ELSE <<>>)
                \o (IF input.FWMark # "" THEN <<"fwmark", input.FWMark>> ELSE <<>>)
                \o (IF input.IIF # "" THEN <<"iif", input.IIF>> ELSE <<>>)
                \o (IF input.OIF # "" THEN <<"oif", input.OIF>> ELSE <<>>)
                \o (IF input.Table # "" THEN <<"lookup", input.Table>> ELSE <<>>)
        r == IpRuleAdd(k, args)
    IN  [k |-> r.k, err |-> IF r.result = "ok" THEN "nil" ELSE "failed to add rule"]

\* The adds RestoreRules runs for the lines of the rule file, in order, from
\* line i on; the exit status of every add is dropped.
RECURSIVE ReplayRuleLines(_, _, _, _)
ReplayRuleLines(k, ls, i, log) ==
    IF i > Len(ls) THEN [k |-> k, log |-> log]
    ELSE LET args == Fields(TrimSpace(ls[i]))
         IN  CHOOSE done \in
                 { ReplayRuleLines(r.k, ls, i + 1,
                       Append(log, [domain |-> "rules", kind |-> "add",
                                    cmd |-> Join(args, " "), result |-> r.result]))
                   : r \in {IpRuleAdd(k, args)} } : TRUE

\* IPRuleService.RestoreRules.  readErr: ReadFile fails with an error other
\* than "does not exist".
RestoreIPRules(k, file, readErr) ==
    IF ~file.exists THEN [k |-> k, log |-> <<>>, err |-> "nil"]
    ELSE IF readErr
    THEN [k |-> k,
          log |-> <<[domain |-> "rules", kind |-> "read", cmd |-> "ip-rules.conf",
                     result |-> "unreadable"]>>,
          err |-> "read ip-rules.conf: permission denied"]
    ELSE CHOOSE done \in
             { [k |-> r.k, log |-> r.log, err |-> "nil"]
               : r \in {ReplayRuleLines(k, SelectSeq(ScanLines(file.content), ReplayLine),
                                        1, <<>>)} } : TRUE

IdleRl ==
    /\ krules = DefaultRules
    /\ ruleFile = NoFile
    /\ rlOp = [op |-> "none", err |-> "nil"]

\* An administrator adds a rule, or removes one, outside this program.
RlEnvAdd ==
    \E r \in AdminRules \cup DefaultRules :
        /\ r \notin krules
        /\ Cardinality(krules) < MaxRules
        /\ krules' = krules \cup {r}
        /\ rlOp' = [op |-> "env", err |-> "nil"]
        /\ UNCHANGED <<ruleFile, fwVars, rtVars, stVars, arVars, xtVars>>

RlEnvDelete ==
    \E r \in krules :
        /\ krules' = krules \ {r}
        /\ rlOp' = [op |-> "env", err |-> "nil"]
        /\ UNCHANGED <<ruleFile, fwVars, rtVars, stVars, arVars, xtVars>>

RlAddRule ==
    \E input \in RuleInputs :
        /\ Cardinality(krules) < MaxRules
        /\ LET r == AddIPRule(krules, input)
           IN  /\ krules' = r.k
               /\ rlOp' = [op |-> "add", err |-> r.err]
        /\ UNCHANGED <<ruleFile, fwVars, rtVars, stVars, arVars, xtVars>>

RlSaveRules ==
    \E listOk \in BOOLEAN, writeOk \in BOOLEAN :
        /\ LET r == SaveRules(krules, ruleFile, listOk, writeOk)
           IN  /\ ruleFile' = r.file
               /\ rlOp' = [op |-> "save", err |-> r.err]
        /\ UNCHANGED <<krules, fwVars, rtVars, stVars, arVars, xtVars>>

RlRestoreRules ==
    \E readErr \in BOOLEAN :
        /\ LET r == RestoreIPRules(krules, ruleFile, readErr)
           IN  /\ krules' = r.k
               /\ rlOp' = [op |-> "restore", err |-> r.err]
        /\ UNCHANGED <<ruleFile, fwVars, rtVars, stVars, arVars, xtVars>>

\* The priorities the rules handler is asked to delete.
DeletePriorities == {0, 50, 100, 200, 32765, 32766}

\* "ip rule del <args>": the tool refuses an empty selector; the kernel
\* removes the first rule, in priority order, that agrees with every selector
\* given ("from all" and an absent selector agree with any rule).
IpRuleDel(k, args, toolOk) ==
    LET rs == SortRules(k)
        from == ValueAfter(args, "from")
        to == ValueAfter(args, "to")
        Agrees(r) ==
            /\ (\E i \in 1..Len(args) : args[i] = "priority")
                   => r.Priority = Atoi(ValueAfter(args, "priority"))
            /\ from \notin {"", "all"} => r.From = from
            /\ to # "" => r.To = to
        hits == SelectSeq(rs, Agrees)
    IN  IF args = <<>> \/ ~toolOk \/ hits = <<>> THEN [k |-> k, result |-> "failed"]
        ELSE [k |-> k \ {hits[1]}, result |-> "ok"]

\* A DeleteRule that never passes the priority to the tool.
DeleteIPRuleWithoutPriority(k, priority, from, to, toolOk) ==
    LET args == (IF from # "" THEN <<"from", from>> ELSE <<>>)
                \o (IF to # "" THEN <<"to", to>> ELSE <<>>)
        r == IpRuleDel(k, args, toolOk)
    IN  [k |-> r.k, cmds |-> <<args>>,
         err |-> IF r.result = "ok" THEN "nil" ELSE "failed to delete rule"]

\* IPRuleService.DeleteRule(priority, from, to): build the argument list, run
\* it.
DeleteIPRule(k, priority, from, to, toolOk) ==
    LET args == (IF priority > 0 THEN <<"priority", Itoa(priority)>> ELSE <<>>)
                \o (IF from # "" THEN <<"from", from>> ELSE <<>>)
                \o (IF to # "" THEN <<"to", to>> ELSE <<>>)
        r == IpRuleDel(k, args, toolOk)
    IN  [k |-> r.k, cmds |-> <<args>>,
         err |-> IF r.result = "ok" THEN "nil" ELSE "failed to delete rule"]

\* IPRuleService.DeleteByPriority(priority).  listOk: the listing succeeds;
\* toolOk: the tool is let to delete.
DeleteByPriority(k, priority, listOk, toolOk) ==
    IF ~listOk THEN [k |-> k, cmds |-> <<>>, err |-> "failed to list rules"]
    ELSE LET HasPriority(rule) == rule.Priority = priority
             found == SelectSeq(ListRules(k), HasPriority)
         IN  IF found # <<>>
             THEN DeleteIPRule(k, priority, found[1].From, found[1].To, toolOk)
             ELSE [k |-> k, cmds |-> <<>>,
                   err |-> "rule with priority " \o Itoa(priority) \o " not found"]

\* RulesHandler.DeleteRule: the priority of the URL goes to DeleteByPriority.
RlDeleteByPriority ==
    \E priority \in DeletePriorities, listOk \in BOOLEAN, toolOk \in BOOLEAN :
        /\ \E r \in {DeleteByPriority(krules, priority, listOk, toolOk)} :
              /\ krules' = r.k
              /\ rlOp' = [op |-> "delete", err |-> r.err, priority |-> priority,
                          pre |-> krules, cmds |-> r.cmds]
        /\ UNCHANGED <<ruleFile, fwVars, rtVars, stVars, arVars, xtVars>>

(***************************************************************************)
(* Startup: main() runs RestoreAll once, then serves requests.             *)
(***************************************************************************)
\* Most requests served after startup.
MaxRequests == 2

\* The text "iptables-save" prints for the chain.
IptablesSave(c) ==
    Join(<<"*filter", ":INPUT ACCEPT [0:0]">>
         \o [i \in 1..Len(c) |-> "-A INPUT " \o c[i]]
         \o <<"COMMIT">>, "\n") \o "\n"

IsAppendLine(l) == HasPrefix(l, "-A INPUT ")

\* "iptables-restore" fed a text: all or nothing.  It needs the closing
\* COMMIT and may fail for reasons of its own (toolOk = FALSE).
IptablesRestore(c, text, toolOk) ==
    LET ls == ScanLines(text)
        adds == SelectSeq(ls, IsAppendLine)
    IN  IF toolOk /\ Len(ls) >= 1 /\ ls[Len(ls)] = "COMMIT"
        THEN [ok |-> TRUE,
              chain |-> [i \in 1..Len(adds) |-> SubSeq(adds[i], Len("-A INPUT ") + 1, Len(adds[i]))]]
        ELSE [ok |-> FALSE, chain |-> c]

\* IPTablesService.SaveRules: iptables-save into iptables/rules.v4.
IPTablesSaveRules(c, file, toolOk, writeOk) ==
    IF ~toolOk THEN [file |-> file, err |-> "failed to save rules"]
    ELSE IF ~writeOk THEN [file |-> file, err |-> "failed to write rules file"]
    ELSE [file |-> FileOf(IptablesSave(c)), err |-> "nil"]

\* IPTablesService.RestoreRules: one bulk iptables-restore of the file.
IPTablesRestoreRules(c, file, readErr, toolOk) ==
    IF ~file.exists THEN [chain |-> c, log |-> <<>>, err |-> "nil"]
    ELSE IF readErr
    THEN [chain |-> c,
          log |-> <<[domain |-> "iptables", kind |-> "read", cmd |-> "rules.v4",
                     result |-> "unreadable"]>>,
          err |-> "failed to read rules file"]
    ELSE LET r == IptablesRestore(c, file.content, toolOk)
         IN  [chain |-> r.chain,
              log |-> <<[domain |-> "iptables", kind |-> "exec", cmd |-> "iptables-restore",
                         result |-> IF r.ok THEN "ok" ELSE "failed"]>>,
              err |-> IF r.ok THEN "nil" ELSE "failed to restore rules"]

Call(domain) == <<[domain |-> domain, kind |-> "call", cmd |-> "", result |-> ""]>>
Return(domain, err) == <<[domain |-> domain, kind |-> "return", cmd |-> "", result |-> err]>>

\* fmt.Errorf("some configurations failed to restore: %v", errors)
AggregateError(errors) ==
    IF Len(errors) > 0
    THEN "some configurations failed to restore: [" \o Join(errors, " ") \o "]"
    ELSE "nil"

\* A RestoreAll that replays the routes ahead of the firewall.
RestoreAllRoutesFirst(sys, faults) ==
    LET rt == RestoreRoutes(sys.kroutes, sys.devs, sys.routeFiles,
                            faults.readDir, faults.unreadable)
        fw == IPTablesRestoreRules(sys.chain, sys.fwFile, faults.fwRead, ~faults.fwTool)
        rl == RestoreIPRules(sys.krules, sys.ruleFile, faults.rlRead)
        errors == (IF rt.err # "nil" THEN <<"routes: " \o rt.err>> ELSE <<>>)
                  \o (IF fw.err # "nil" THEN <<"iptables: " \o fw.err>> ELSE <<>>)
                  \o (IF rl.err # "nil" THEN <<"rules: " \o rl.err>> ELSE <<>>)
    IN  [chain |-> fw.chain, kroutes |-> rt.k, krules |-> rl.k,
         log |-> Call("routes") \o rt.log \o Return("routes", rt.err)
                 \o Call("iptables") \o fw.log \o Return("iptables", fw.err)
                 \o Call("rules") \o rl.log \o Return("rules", rl.err),
         errors |-> errors, err |-> AggregateError(errors)]

\* A RestoreAll that gives up at the first domain that fails.
RestoreAllAbortOnFirstError(sys, faults) ==
    LET fw == IPTablesRestoreRules(sys.chain, sys.fwFile, faults.fwRead, ~faults.fwTool)
        rt == RestoreRoutes(sys.kroutes, sys.devs, sys.routeFiles,
                            faults.readDir, faults.unreadable)
        rl == RestoreIPRules(sys.krules, sys.ruleFile, faults.rlRead)
        fwLog == Call("iptables") \o fw.log \o Return("iptables", fw.err)
        rtLog == Call("routes") \o rt.log \o Return("routes", rt.err)
        rlLog == Call("rules") \o rl.log \o Return("rules", rl.err)
    IN  IF fw.err # "nil"
        THEN [chain |-> fw.chain, kroutes |-> sys.kroutes, krules |-> sys.krules,
              log |-> fwLog, errors |-> <<"iptables: " \o fw.err>>,
              err |-> AggregateError(<<"iptables: " \o fw.err>>)]
        ELSE IF rt.err # "nil"
        THEN [chain |-> fw.chain, kroutes |-> rt.k, krules |-> sys.krules,
              log |-> fwLog \o rtLog, errors |-> <<"routes: " \o rt.err>>,
              err |-> AggregateError(<<"routes: " \o rt.err>>)]
        ELSE LET errors == IF rl.err # "nil" THEN <<"rules: " \o rl.err>> ELSE <<>>
             IN  [chain |-> fw.chain, kroutes |-> rt.k, krules |-> rl.k,
                  log |-> fwLog \o rtLog \o rlLog, errors |-> errors,
                  err |-> AggregateError(errors)]

\* PersistService.RestoreAll: the three restores one after the other, each
\* returned error appended under its domain's name.  sys: the kernel state
\* and the files; faults: what the environment fails.
RestoreAll(sys, faults) ==
    LET fw == IPTablesRestoreRules(sys.chain, sys.fwFile, faults.fwRead, ~faults.fwTool)
        rt == RestoreRoutes(sys.kroutes, sys.devs, sys.routeFiles,
                            faults.readDir, faults.unreadable)
        rl == RestoreIPRules(sys.krules, sys.ruleFile, faults.rlRead)
        errors == (IF fw.err # "nil" THEN <<"iptables: " \o fw.err>> ELSE <<>>)
                  \o (IF rt.err # "nil" THEN <<"routes: " \o rt.err>> ELSE <<>>)
                  \o (IF rl.err # "nil" THEN <<"rules: " \o rl.err>> ELSE <<>>)
    IN  [chain |-> fw.chain, kroutes |-> rt.k, krules |-> rl.k,
         log |-> Call("iptables") \o fw.log \o Return("iptables", fw.err)
                 \o Call("routes") \o rt.log \o Return("routes", rt.err)
                 \o Call("rules") \o rl.log \o Return("rules", rl.err),
         errors |-> errors, err |-> AggregateError(errors)]

\* The kernel states an earlier run saved from.
SavedRouteStates == { {}, {InputRoute(i) : i \in RouteInputs}, AdminRoutes }

\* The route files an earlier SaveRoutes left in the store.
StoredRouteFiles ==
    { WriteRouteFiles(TableRoutes(k), NoPre, "", {}).files : k \in SavedRouteStates }

\* The rule files in the store: none, one SaveRules wrote, one edited by hand.
StoredRuleFiles ==
    { NoFile,
      SaveRules(DefaultRules \cup {InputRule(i) : i \in RuleInputs}, NoFile, TRUE, TRUE).file,
      FileOf("# policy rules\n\npriority 100 from 10.0.0.0/24 lookup custom1\n") }

StoredFwFiles == { NoFile, FileOf(IptablesSave(<<"-p tcp --dport 22 -j ACCEPT", "-j DROP">>)) }

NoRestore == [count |-> 0, log |-> <<>>, errors |-> <<>>, err |-> "nil"]

IdleSt ==
    /\ pc = "off"
    /\ fwFile = NoFile
    /\ restoreOp = NoRestore
    /\ served = 0

\* The machine has booted and main() has built its services.
Boot ==
    /\ chain = <<>>
    /\ fwOp = [op |-> "none", from |-> 0, to |-> 0, pre |-> <<>>,
               err |-> "nil", cmds |-> <<>>, delOk |-> TRUE]
    /\ devs \in {AllDevs, {"eth0"}}
    /\ kroutes = KernelRoutes
    /\ routeFiles \in StoredRouteFiles
    /\ rtOp = [op |-> "none", err |-> "nil", pre |-> NoPre]
    /\ rtScen = NoScen
    /\ krules = DefaultRules
    /\ ruleFile \in StoredRuleFiles
    /\ rlOp = [op |-> "none", err |-> "nil"]
    /\ pc = "boot"
    /\ fwFile \in StoredFwFiles
    /\ restoreOp = NoRestore
    /\ served = 0

\* main(): persistService.RestoreAll(...), its error logged as a warning.
StRestoreAll ==
    \E fwRead \in BOOLEAN, fwTool \in BOOLEAN, readDir \in BOOLEAN,
       unreadable \in SUBSET {"main"}, rlRead \in BOOLEAN :
        /\ pc = "boot"
        /\ (fwRead => ~fwTool)
        /\ (readDir => unreadable = {})
        /\ \E r \in {RestoreAll([chain |-> chain, kroutes |-> kroutes, devs |-> devs,
                                   krules |-> krules, fwFile |-> fwFile,
                                   routeFiles |-> routeFiles, ruleFile |-> ruleFile],
                                  [fwRead |-> fwRead, fwTool |-> fwTool, readDir |-> readDir,
                                   unreadable |-> unreadable, rlRead |-> rlRead])} :
               /\ chain' = r.chain
               /\ kroutes' = r.kroutes
               /\ krules' = r.krules
               /\ restoreOp' = [count |-> restoreOp.count + 1, log |-> r.log,
                                errors |-> r.errors, err |-> r.err]
        /\ pc' = "restored"
        /\ UNCHANGED <<fwOp, devs, routeFiles, rtOp, rtScen, ruleFile, rlOp, fwFile,
                       served, arVars, xtVars>>

\* main(): templates, handlers and router built, http.ListenAndServe called.
StListen ==
    /\ pc = "restored"
    /\ pc' = "serving"
    /\ UNCHANGED <<fwVars, rtVars, rlVars, fwFile, restoreOp, served, arVars, xtVars>>

\* POST of a route: RoutesHandler.AddRoute.
StAddRoute ==
    \E input \in RouteInputs :
        /\ pc = "serving"
        /\ served < MaxRequests
        /\ LET r == AddRoute(kroutes, devs, input)
           IN  /\ kroutes' = r.k
               /\ rtOp' = [op |-> "add", err |-> r.err, pre |-> NoPre]
        /\ served' = served + 1
        /\ UNCHANGED <<fwVars, devs, routeFiles, rtScen, rlVars, pc, fwFile, restoreOp,
                       arVars, xtVars>>

\* SettingsHandler.SaveAll: the three saves, each error collected.
StSaveAll ==
    \E fail \in {"none", "iptables", "routes", "rules"} :
        /\ pc = "serving"
        /\ served < MaxRequests
        /\ LET fw == IPTablesSaveRules(chain, fwFile, fail # "iptables", TRUE)
               rt == IF fail = "routes"
                     THEN [files |-> routeFiles, err |-> "failed to list all routes"]
                     ELSE WriteRouteFiles(TableRoutes(kroutes), routeFiles, "", {})
               rl == SaveRules(krules, ruleFile, fail # "rules", TRUE)
           IN  /\ fwFile' = fw.file
               /\ routeFiles' = rt.files
               /\ ruleFile' = rl.file
               /\ rtOp' = [op |-> "save", err |-> rt.err, pre |-> routeFiles]
               /\ rlOp' = [op |-> "save", err |-> rl.err]
        /\ served' = served + 1
        /\ UNCHANGED <<fwVars, kroutes, devs, rtScen, krules, pc, restoreOp, arVars, xtVars>>

(***************************************************************************)
(* Archive: export and import of the store directory (persist.go).         *)
(***************************************************************************)
\* Most regular files in the store at once.
MaxFiles == 2

\* PersistService.configDir
configDir == "/etc/router"

\* The mode ImportConfig passes to MkdirAll.
DirPerm == 493

\* The store's relative paths in the order filepath.Walk visits them.
WalkOrder ==
    <<".", "iptables", "iptables/rules.v4", "routes", "routes/main.conf",
      "rules", "rules/ip-rules.conf">>

StoreFiles == {"iptables/rules.v4", "routes/main.conf", "rules/ip-rules.conf"}

\* Content and permission bits (0644, 0600) a store file may have.
FileVariants == { [mode |-> 420, body |-> "-A INPUT -j DROP\n"],
                  [mode |-> 384, body |-> "default via 10.0.0.1 dev eth0"] }

Entry(path, kind, mode, body) == [path |-> path, kind |-> kind, mode |-> mode, body |-> body]

Exists(f, path) == \E e \in f : e.path = path

Lookup(f, path) == CHOOSE e \in f : e.path = path

\* filepath.Clean on a rooted path, by components.
RECURSIVE CleanParts(_, _, _)
CleanParts(parts, i, out) ==
    IF i > Len(parts) THEN out
    ELSE IF parts[i] = "" \/ parts[i] = "." THEN CleanParts(parts, i + 1, out)
    ELSE IF parts[i] = ".."
         THEN CleanParts(parts, i + 1,
                         IF out = <<>> THEN out ELSE SubSeq(out, 1, Len(out) - 1))
    ELSE CleanParts(parts, i + 1, Append(out, parts[i]))

Clean(path) == "/" \o Join(CleanParts(Split(path, "/"), 1, <<>>), "/")

\* filepath.Join(dir, name)
FilepathJoin(dir, name) == Clean(dir \o "/" \o name)

\* filepath.Dir
Dir(path) ==
    LET ps == CleanParts(Split(path, "/"), 1, <<>>)
    IN  "/" \o Join(SubSeq(ps, 1, Len(ps) - 1), "/")

\* The path and every directory above it, below "/".
Ancestors(path) ==
    LET ps == CleanParts(Split(path, "/"), 1, <<>>)
    IN  { "/" \o Join(SubSeq(ps, 1, n), "/") : n \in 1..Len(ps) }

\* os.MkdirAll(path, mode): creates what is missing; fails when a regular
\* file is in the way.
MkdirAll(f, path, mode) ==
    IF \E a \in Ancestors(path) : Exists(f, a) /\ Lookup(f, a).kind = "file"
    THEN [fs |-> f, ok |-> FALSE]
    ELSE [fs |-> f \cup { Entry(a, "dir", mode, "") : a \in {x \in Ancestors(path) : ~Exists(f, x)} },
          ok |-> TRUE]

\* The store file of a relative path.
PathOf(rel) == IF rel = "." THEN configDir ELSE configDir \o "/" \o rel

\* tar.FileInfoHeader + header.Name = relPath, and the content of a file.
HeaderOf(f, rel) ==
    LET e == Lookup(f, PathOf(rel))
    IN  [Name |-> rel, Typeflag |-> IF e.kind = "dir" THEN "dir" ELSE "reg",
         Mode |-> e.mode % 512, Body |-> e.body]

\* PersistService.ExportConfig: one header per path the walk visits.
ExportConfig(f, ok) ==
    LET Present(rel) == Exists(f, PathOf(rel))
        walk == SelectSeq(WalkOrder, Present)
    IN  IF ~ok THEN [archive |-> <<>>, err |-> "failed to create archive"]
        ELSE [archive |-> [i \in 1..Len(walk) |-> HeaderOf(f, walk[i])], err |-> "nil"]

\* os.Create + io.Copy: a new file gets 0644 (0666 under umask 022), an
\* existing one keeps its mode and is truncated.
CreateFile(f, path, body) ==
    IF Exists(f, path) /\ Lookup(f, path).kind = "dir" THEN [fs |-> f, ok |-> FALSE]
    ELSE LET mode == IF Exists(f, path) THEN Lookup(f, path).mode ELSE 420
         IN  [fs |-> {e \in f : e.path # path} \cup {Entry(path, "file", mode, body)},
              ok |-> TRUE]

\* os.Chmod(path, os.FileMode(mode))
Chmod(f, path, mode) ==
    {e \in f : e.path # path} \cup {[Lookup(f, path) EXCEPT !.mode = mode % 512]}

\* An import step that leaves a created file's mode as os.Create made it.
ImportEntryWithoutChmod(f, header) ==
    LET targetPath == FilepathJoin(configDir, header.Name)
    IN  IF ~HasPrefix(targetPath, configDir)
        THEN [fs |-> f, err |-> "invalid path in archive"]
        ELSE IF header.Typeflag = "dir"
        THEN LET m == MkdirAll(f, targetPath, DirPerm)
             IN  [fs |-> m.fs, err |-> IF m.ok THEN "nil" ELSE "failed to create directory"]
        ELSE IF header.Typeflag = "reg"
        THEN LET m == MkdirAll(f, Dir(targetPath), DirPerm)
                 c == CreateFile(m.fs, targetPath, header.Body)
             IN  IF ~m.ok THEN [fs |-> m.fs, err |-> "failed to create parent directory"]
                 ELSE IF ~c.ok THEN [fs |-> c.fs, err |-> "failed to create file"]
                 ELSE [fs |-> c.fs, err |-> "nil"]
        ELSE [fs |-> f, err |-> "nil"]

\* ImportConfig's loop body for one archive entry: resolve the target, check
\* it against configDir, create the directory or the file.
ImportEntry(f, header) ==
    LET targetPath == FilepathJoin(configDir, header.Name)
    IN  IF ~HasPrefix(targetPath, configDir)
        THEN [fs |-> f, err |-> "invalid path in archive"]
        ELSE IF header.Typeflag = "dir"
        THEN LET m == MkdirAll(f, targetPath, DirPerm)
             IN  [fs |-> m.fs, err |-> IF m.ok THEN "nil" ELSE "failed to create directory"]
        ELSE IF header.Typeflag = "reg"
        THEN LET m == MkdirAll(f, Dir(targetPath), DirPerm)
                 c == CreateFile(m.fs, targetPath, header.Body)
             IN  IF ~m.ok THEN [fs |-> m.fs, err |-> "failed to create parent directory"]
                 ELSE IF ~c.ok THEN [fs |-> c.fs, err |-> "failed to create file"]
                 ELSE [fs |-> Chmod(c.fs, targetPath, header.Mode), err |-> "nil"]
        ELSE [fs |-> f, err |-> "nil"]

RECURSIVE ImportFrom(_, _, _)
ImportFrom(f, headers, i) ==
    IF i > Len(headers) THEN [fs |-> f, err |-> "nil"]
    ELSE CHOOSE done \in
             { IF r.err # "nil" THEN r ELSE ImportFrom(r.fs, headers, i + 1)
               : r \in {ImportEntry(f, headers[i])} } : TRUE

\* PersistService.ImportConfig.  gzOk: the upload is a gzip stream.
ImportConfig(f, headers, gzOk) ==
    IF ~gzOk THEN [fs |-> f, err |-> "failed to create gzip reader"]
    ELSE ImportFrom(f, headers, 1)

\* Archives a client may upload that no export produced.
UploadedArchives ==
    { <<[Name |-> "../router-evil/x", Typeflag |-> "reg", Mode |-> 420, Body |-> "x"]>>,
      <<[Name |-> "../../etc/passwd", Typeflag |-> "reg", Mode |-> 420, Body |-> "x"]>>,
      <<[Name |-> "rules/ip-rules.conf", Typeflag |-> "reg", Mode |-> 384,
         Body |-> "priority 100 lookup main"]>>,
      <<[Name |-> "routes", Typeflag |-> "dir", Mode |-> 493, Body |-> ""],
        [Name |-> "routes/../../router2", Typeflag |-> "dir", Mode |-> 493, Body |-> ""]>>,
      <<[Name |-> "iptables/../../../tmp/x", Typeflag |-> "reg", Mode |-> 420, Body |-> "x"]>>,
      <<[Name |-> "rules/ip-rules.conf", Typeflag |-> "reg", Mode |-> 420,
         Body |-> "priority 300 lookup main"],
        [Name |-> "../../tmp/x", Typeflag |-> "reg", Mode |-> 420, Body |-> "x"]>> }

\* A path is in the store's directory tree.
InRoot(path) == path = configDir \/ HasPrefix(path, configDir \o "/")

\* The store with nothing in it.
EmptyStore == { Entry("/etc", "dir", 493, ""), Entry("/tmp", "dir", 511, ""),
                Entry(configDir, "dir", 493, "") }

\* The store's tree: paths, kinds, and for regular files content and
\* permission bits.
StoreTree(f) ==
    { IF e.kind = "dir" THEN Entry(e.path, "dir", 0, "") ELSE e : e \in {x \in f : InRoot(x.path)} }

NoArScen == [phase |-> 0, orig |-> {}]

IdleAr ==
    /\ fs = EmptyStore
    /\ archive = <<>>
    /\ arOp = [op |-> "none", err |-> "nil", pre |-> {}]
    /\ arScen = NoArScen

\* A save, or an administrator, writes a file of the store.
ArPutFile ==
    \E rel \in StoreFiles, v \in FileVariants :
        /\ \/ Exists(fs, PathOf(rel))
           \/ Cardinality({e \in fs : InRoot(e.path) /\ e.kind = "file"}) < MaxFiles
        /\ LET m == MkdirAll(fs, Dir(PathOf(rel)), DirPerm)
               c == CreateFile(m.fs, PathOf(rel), v.body)
           IN  fs' = Chmod(c.fs, PathOf(rel), v.mode)
        /\ arOp' = [op |-> "put", err |-> "nil", pre |-> {}]
        /\ arScen' = NoArScen
        /\ UNCHANGED <<archive, fwVars, rtVars, rlVars, stVars, xtVars>>

\* SettingsHandler.ExportConfig
ArExport ==
    \E ok \in BOOLEAN :
        /\ LET r == ExportConfig(fs, ok)
           IN  /\ archive' = r.archive
               /\ arOp' = [op |-> "export", err |-> r.err, pre |-> {}]
               /\ arScen' = IF ok THEN [phase |-> 1, orig |-> StoreTree(fs)] ELSE NoArScen
        /\ UNCHANGED <<fs, fwVars, rtVars, rlVars, stVars, xtVars>>

\* The store root is emptied (or the archive is taken to a fresh machine).
ArWipe ==
    /\ \E e \in fs : e.path # configDir /\ InRoot(e.path)
    /\ fs' = {e \in fs : e.path = configDir \/ ~InRoot(e.path)}
    /\ arOp' = [op |-> "wipe", err |-> "nil", pre |-> {}]
    /\ arScen' = IF arScen.phase = 1 THEN [arScen EXCEPT !.phase = 2] ELSE NoArScen
    /\ UNCHANGED <<archive, fwVars, rtVars, rlVars, stVars, xtVars>>

\* A client picks a file to upload.
ArUpload ==
    \E a \in UploadedArchives :
        /\ archive' = a
        /\ arOp' = [op |-> "upload", err |-> "nil", pre |-> {}]
        /\ arScen' = NoArScen
        /\ UNCHANGED <<fs, fwVars, rtVars, rlVars, stVars, xtVars>>

\* SettingsHandler.ImportConfig
ArImport ==
    \E gzOk \in BOOLEAN :
        /\ LET r == ImportConfig(fs, archive, gzOk)
           IN  /\ fs' = r.fs
               /\ arOp' = [op |-> "import", err |-> r.err, pre |-> fs]
               /\ arScen' = IF gzOk /\ arScen.phase = 2
                            THEN [arScen EXCEPT !.phase = 3]
                            ELSE NoArScen
        /\ UNCHANGED <<archive, fwVars, rtVars, rlVars, stVars, xtVars>>

(***************************************************************************)
(* Parsers and builders: pure functions applied to an input.               *)
(***************************************************************************)
NoInput == [fn |-> "none"]

NoOutput == [done |-> FALSE]

IdlePf ==
    /\ fnIn = NoInput
    /\ fnOut = NoOutput

IdleTb ==
    /\ tbl = <<>>
    /\ tblOp = [op |-> "none"]

IdleCq == reqs = <<>>

IdleLc == life = [main |-> "off"]

IdleXt == IdlePf /\ IdleTb /\ IdleCq /\ IdleLc

\* What the parsers and builders leave alone besides the five domains.
pfRest == <<tbVars, cqVars, lcVars>>

\* A uint64 is kept as four 16-bit limbs, least significant first.
LimbBase == 65536

Zero(n) == [i \in 1..n |-> 0]

\* x * m + a over the limbs of x, for small m and a: the limbs of the result
\* followed by the carry out of the top limb.
RECURSIVE MulAddFrom(_, _, _, _)
MulAddFrom(x, m, carry, i) ==
    IF i > Len(x) THEN <<carry>>
    ELSE CHOOSE r \in { <<v % LimbBase>> \o MulAddFrom(x, m, v \div LimbBase, i + 1)
                        : v \in {x[i] * m + carry} } : TRUE

MulAdd(x, m, a) ==
    CHOOSE r \in { [limbs |-> SubSeq(t, 1, Len(x)), carry |-> t[Len(x) + 1]]
                   : t \in {MulAddFrom(x, m, a, 1)} } : TRUE

\* strconv.ParseUint's digit loop: a value that leaves the width is a range
\* error, and the result is the largest value of the width.
RECURSIVE ParseUintFrom(_, _, _)
ParseUintFrom(s, i, acc) ==
    IF i > Len(s) THEN acc
    ELSE CHOOSE r \in { IF step.carry # 0 THEN [j \in 1..Len(acc) |-> LimbBase - 1]
                        ELSE ParseUintFrom(s, i + 1, step.limbs)
                        : step \in {MulAdd(acc, 10, DigitVal(SubSeq(s, i, i)))} } : TRUE

\* val, _ := strconv.ParseUint(s, 10, 16 * n): 0 on a syntax error.
ParseUint(s, n) == IF IsDigits(s) THEN ParseUintFrom(s, 1, Zero(n)) ELSE Zero(n)

\* val * 1024^k in the width of val: what leaves the top limb is lost.
RECURSIVE TimesKibi(_, _)
TimesKibi(val, k) ==
    IF k = 0 THEN val
    ELSE CHOOSE r \in { TimesKibi(p.limbs, k - 1) : p \in {MulAdd(val, 1024, 0)} } : TRUE

\* The power of 1024 a suffix stands for.
SuffixPower(c) == IF c = "K" THEN 1 ELSE IF c = "M" THEN 2 ELSE IF c = "G" THEN 3 ELSE 0

\* A parseSuffixedNumber that takes the suffixes as powers of 1000.
parseSuffixedNumberDecimal(s) ==
    IF s = "" THEN Zero(4)
    ELSE LET lastChar == SubSeq(s, Len(s), Len(s))
             numStr == IF lastChar \in {"K", "M", "G"} THEN SubSeq(s, 1, Len(s) - 1) ELSE s
             val == ParseUint(numStr, 4)
             k == SuffixPower(lastChar)
         IN  IF k = 0 THEN val
             ELSE IF k = 1 THEN MulAdd(val, 1000, 0).limbs
             ELSE IF k = 2 THEN MulAdd(MulAdd(val, 1000, 0).limbs, 1000, 0).limbs
             ELSE MulAdd(MulAdd(MulAdd(val, 1000, 0).limbs, 1000, 0).limbs, 1000, 0).limbs

\* parseSuffixedNumber(s): strip a trailing K, M or G, parse the rest as a
\* uint64 (errors dropped), multiply in uint64.
parseSuffixedNumber(s) ==
    IF s = "" THEN Zero(4)
    ELSE LET lastChar == SubSeq(s, Len(s), Len(s))
             numStr == IF lastChar \in {"K", "M", "G"} THEN SubSeq(s, 1, Len(s) - 1) ELSE s
         IN  TimesKibi(ParseUint(numStr, 4), SuffixPower(lastChar))

\* The digit strings of the counter tokens explored: small values, the values
\* around 2^34, 2^44, 2^54 and 2^64.
CounterDigits ==
    { "0", "1", "7", "49", "253", "1024", "6477", "9999", "65535", "65536", "99999",
      "4194304", "17179869183", "17179869184", "17592186044415", "17592186044416",
      "18014398509481983", "18014398509481984", "18446744073709551615",
      "18446744073709551616" }

CounterSuffixes == {"", "K", "M", "G"}

InitCounter ==
    /\ IdleFw /\ IdleRt /\ IdleRl /\ IdleSt /\ IdleAr /\ IdleTb /\ IdleCq /\ IdleLc
    /\ fnIn \in { [fn |-> "parseSuffixedNumber", digits |-> d, suffix |-> x]
                  : d \in CounterDigits, x \in CounterSuffixes }
    /\ fnOut = NoOutput

\* parseChainOutput hands a header's counter token to parseSuffixedNumber.
PfParseCounter ==
    /\ fnIn.fn = "parseSuffixedNumber"
    /\ ~fnOut.done
    /\ fnOut' = [done |-> TRUE, val |-> parseSuffixedNumber(fnIn.digits \o fnIn.suffix)]
    /\ UNCHANGED <<fnIn, fwVars, rtVars, rlVars, stVars, arVars, pfRest>>

\* Most keyword/value pairs on a route line explored.
MaxPairs == 3

\* The keywords parseRouteLine knows, each with the value it carries here.
PairValue ==
    [via |-> "10.0.0.1", dev |-> "eth0", proto |-> "static", scope |-> "link",
     src |-> "10.0.0.2", metric |-> "100", table |-> "custom1"]

PairKeys == DOMAIN PairValue

\* The keywords of a line, in the order they stand on it: every sequence of
\* distinct keywords up to MaxPairs long.
PairOrders ==
    { s \in UNION { [1..n -> PairKeys] : n \in 0..MaxPairs } :
        \A i \in 1..Len(s) : \A j \in 1..Len(s) : i # j => s[i] # s[j] }

\* What a line starts with: a destination, or a type keyword and a prefix.
LineHeads ==
    { <<"default">>, <<"10.1.0.0/16">>, <<"unreachable", "10.9.0.0/16">>,
      <<"broadcast", "10.0.0.255">>, <<"local", "10.0.0.2">> }

RECURSIVE PairTokens(_, _)
PairTokens(order, i) ==
    IF i > Len(order) THEN <<>>
    ELSE <<order[i], PairValue[order[i]]>> \o PairTokens(order, i + 1)

\* The line of an input: head, pairs, and a flag token the parser does not
\* know before or after the pairs.
RouteLineOf(in) ==
    Join(in.head
         \o (IF in.flagAt = 1 THEN <<"onlink">> ELSE <<>>)
         \o PairTokens(in.order, 1)
         \o (IF in.flagAt = 2 THEN <<"linkdown">> ELSE <<>>), " ")

InitParseRoute ==
    /\ IdleFw /\ IdleRt /\ IdleRl /\ IdleSt /\ IdleAr /\ IdleTb /\ IdleCq /\ IdleLc
    /\ fnIn \in { [fn |-> "parseRouteLine", head |-> h, order |-> o, flagAt |-> f,
                   queried |-> q]
                  : h \in LineHeads, o \in PairOrders, f \in 0..2, q \in {"", "custom2"} }
    /\ fnOut = NoOutput

\* parseRouteOutput hands a listing line to parseRouteLine.
PfParseRouteLine ==
    /\ fnIn.fn = "parseRouteLine"
    /\ ~fnOut.done
    /\ fnOut' = [done |-> TRUE, val |-> parseRouteLine(RouteLineOf(fnIn), fnIn.queried)]
    /\ UNCHANGED <<fnIn, fwVars, rtVars, rlVars, stVars, arVars, pfRest>>

\* The line "ip rule show" style text of an input: priority, then the
\* selector keywords that are present, then the action.
RuleLineOf(in) ==
    ToString(in.priority) \o ":\t"
    \o Join((IF in.not THEN <<"not">> ELSE <<>>)
            \o (IF in.from # "" THEN <<"from", in.from>> ELSE <<>>)
            \o (IF in.to # "" THEN <<"to", in.to>> ELSE <<>>)
            \o (IF in.fwmark # "" THEN <<"fwmark", in.fwmark>> ELSE <<>>)
            \o (IF in.iif # "" THEN <<"iif", in.iif>> ELSE <<>>)
            \o in.action, " ")

InitParseRule ==
    /\ IdleFw /\ IdleRt /\ IdleRl /\ IdleSt /\ IdleAr /\ IdleTb /\ IdleCq /\ IdleLc
    /\ fnIn \in { [fn |-> "parseRuleOutput", priority |-> p, not |-> n, from |-> f, to |-> t,
                   fwmark |-> k, iif |-> i, action |-> a]
                  : p \in {0, 100, 32766}, n \in BOOLEAN, f \in {"", "all", "10.0.0.0/24"},
                    t \in {"", "10.9.0.0/16"}, k \in {"", "0x1"}, i \in {"", "eth1"},
                    a \in {<<"lookup", "main">>, <<"unreachable">>} }
    /\ fnOut = NoOutput

\* ListRules hands the listing to parseRuleOutput, line by line.
PfParseRuleLine ==
    /\ fnIn.fn = "parseRuleOutput"
    /\ ~fnOut.done
    /\ fnOut' = [done |-> TRUE, val |-> parseRuleLine(RuleLineOf(fnIn))]
    /\ UNCHANGED <<fnIn, fwVars, rtVars, rlVars, stVars, arVars, pfRest>>

\* buildRuleArgs(input): the rule part of an iptables -A / -I invocation.
buildRuleArgs(input) ==
    (IF input.Protocol # "" /\ input.Protocol # "all" THEN <<"-p", input.Protocol>> ELSE <<>>)
    \o (IF input.Source # "" /\ input.Source # "0.0.0.0/0" THEN <<"-s", input.Source>> ELSE <<>>)
    \o (IF input.Destination # "" /\ input.Destination # "0.0.0.0/0"
        THEN <<"-d", input.Destination>> ELSE <<>>)
    \o (IF input.InInterface # "" THEN <<"-i", input.InInterface>> ELSE <<>>)
    \o (IF input.OutInterface # "" THEN <<"-o", input.OutInterface>> ELSE <<>>)
    \o (IF input.DPort # "" THEN <<"--dport", input.DPort>> ELSE <<>>)
    \o (IF input.SPort # "" THEN <<"--sport", input.SPort>> ELSE <<>>)
    \o (IF input.State # "" THEN <<"-m", "state", "--state", input.State>> ELSE <<>>)
    \o (IF input.Comment # "" THEN <<"-m", "comment", "--comment", input.Comment>> ELSE <<>>)
    \o <<"-j", input.Target>>
    \o (IF input.ToDestination # "" THEN <<"--to-destination", input.ToDestination>> ELSE <<>>)
    \o (IF input.ToSource # "" THEN <<"--to-source", input.ToSource>> ELSE <<>>)

\* The argument list IPRuleService.AddRule hands to ip.
IPRuleAddArgs(input) ==
    <<"rule", "add">>
    \o (IF input.Priority > 0 THEN <<"priority", Itoa(input.Priority)>> ELSE <<>>)
    \o (IF input.Not THEN <<"not">> ELSE <<>>)
    \o (IF input.From # "" THEN <<"from", input.From>> ELSE <<"from", "all">>)
    \o (IF input.To # "" THEN <<"to", input.To>> ELSE <<>>)
    \o (IF input.FWMark # "" THEN <<"fwmark", input.FWMark>> ELSE <<>>)
    \o (IF input.IIF # "" THEN <<"iif", input.IIF>> ELSE <<>>)
    \o (IF input.OIF # "" THEN <<"oif", input.OIF>> ELSE <<>>)
    \o (IF input.Table # "" THEN <<"lookup", input.Table>> ELSE <<>>)

\* Firewall intents: every selector empty, the sentinel, or a value.
FirewallIntents ==
    { [Protocol |-> p, Source |-> s, Destination |-> d, InInterface |-> "",
       OutInterface |-> o, DPort |-> IF p = "tcp" THEN "22" ELSE "", SPort |-> "",
       State |-> "", Comment |-> "", Target |-> t, ToDestination |-> "", ToSource |-> ""]
      : p \in {"", "all", "tcp"}, s \in {"", "0.0.0.0/0", "10.0.0.0/24"},
        d \in {"", "0.0.0.0/0", "10.9.0.0/16"}, o \in {"", "eth0"}, t \in {"ACCEPT", "DROP"} }

\* Policy-rule intents.
IPRuleIntents ==
    { [Priority |-> p, Not |-> n, From |-> f, To |-> t, FWMark |-> k,
       IIF |-> "", OIF |-> "", Table |-> "custom1"]
      : p \in {0, 100}, n \in BOOLEAN, f \in {"", "all", "10.0.0.0/24"},
        t \in {"", "10.9.0.0/16"}, k \in {"", "0x1"} }

InitBuilder ==
    /\ IdleFw /\ IdleRt /\ IdleRl /\ IdleSt /\ IdleAr /\ IdleTb /\ IdleCq /\ IdleLc
    /\ fnIn \in { [fn |-> "buildRuleArgs", input |-> i] : i \in FirewallIntents }
                \cup { [fn |-> "IPRuleService.AddRule", input |-> i] : i \in IPRuleIntents }
    /\ fnOut = NoOutput

\* IPTablesService.AddRule builds the rule arguments of its invocation.
PfBuildRuleArgs ==
    /\ fnIn.fn = "buildRuleArgs"
    /\ ~fnOut.done
    /\ fnOut' = [done |-> TRUE, val |-> buildRuleArgs(fnIn.input)]
    /\ UNCHANGED <<fnIn, fwVars, rtVars, rlVars, stVars, arVars, pfRest>>

\* IPRuleService.AddRule builds its invocation.
PfBuildIPRuleArgs ==
    /\ fnIn.fn = "IPRuleService.AddRule"
    /\ ~fnOut.done
    /\ fnOut' = [done |-> TRUE, val |-> IPRuleAddArgs(fnIn.input)]
    /\ UNCHANGED <<fnIn, fwVars, rtVars, rlVars, stVars, arVars, pfRest>>

\* (\d+[KMG]?): decimal digits, then at most one of K, M, G.
IsCounterToken(t) ==
    \/ IsDigits(t)
    \/ /\ Len(t) > 1
       /\ SubSeq(t, Len(t), Len(t)) \in {"K", "M", "G"}
       /\ IsDigits(SubSeq(t, 1, Len(t) - 1))

\* chainHeaderRe, ^Chain (\S+) \(policy (\S+) (\d+[KMG]?) packets, (\d+[KMG]?) bytes\),
\* on a line without tabs: the pieces between single spaces are forced, so
\* the line matches exactly when they have this shape.  <<name, policy,
\* packets, bytes>>, or <<>> for no match.
MatchChainHeader(line) ==
    LET p == Split(line, " ")
    IN  IF /\ Len(p) >= 8
           /\ p[1] = "Chain" /\ p[2] # "" /\ p[3] = "(policy" /\ p[4] # ""
           /\ IsCounterToken(p[5]) /\ p[6] = "packets,"
           /\ IsCounterToken(p[7]) /\ HasPrefix(p[8], "bytes)")
        THEN <<p[2], p[4], p[5], p[7]>>
        ELSE <<>>

\* chainHeaderNoPolicy, ^Chain (\S+) \((\d+) references\): <<name, count>> or <<>>.
MatchChainHeaderNoPolicy(line) ==
    LET p == Split(line, " ")
    IN  IF /\ Len(p) >= 4
           /\ p[1] = "Chain" /\ p[2] # ""
           /\ HasPrefix(p[3], "(") /\ IsDigits(SubSeq(p[3], 2, Len(p[3])))
           /\ HasPrefix(p[4], "references)")
        THEN <<p[2], SubSeq(p[3], 2, Len(p[3]))>>
        ELSE <<>>

\* IPTablesService.parseRuleLine(line): <<rule>>, or <<>> for the nil it
\* returns on a line of fewer than nine fields.
IPTablesParseRuleLine(line) ==
    LET fields == Fields(line)
    IN  IF Len(fields) < 9 THEN <<>>
        ELSE <<[Num |-> Atoi(fields[1]),
                Packets |-> ParseUint(fields[2], 4), Bytes |-> ParseUint(fields[3], 4),
                Target |-> fields[4], Protocol |-> fields[5], Opt |-> fields[6],
                In |-> "", Out |-> "",
                Source |-> fields[8], Destination |-> fields[9],
                Extra |-> IF Len(fields) > 9 THEN Join(SubSeq(fields, 10, Len(fields)), " ")
                          ELSE ""]>>

\* One pass of parseChainOutput's loop: cur is <<>> while currentChain is nil
\* and <<chain>> after a header.
ChainLineStep(line, chains, cur) ==
    LET m == MatchChainHeader(line)
        n == MatchChainHeaderNoPolicy(line)
    IN  IF m # <<>>
        THEN [chains |-> chains \o cur,
              cur |-> <<[Name |-> m[1], Policy |-> m[2],
                         Packets |-> parseSuffixedNumber(m[3]),
                         Bytes |-> parseSuffixedNumber(m[4]), Rules |-> <<>>]>>]
        ELSE IF n # <<>>
        THEN [chains |-> chains \o cur,
              cur |-> <<[Name |-> n[1], Policy |-> "-", Packets |-> Zero(4),
                         Bytes |-> Zero(4), Rules |-> <<>>]>>]
        ELSE IF HasPrefix(line, "num") \/ TrimSpace(line) = ""
        THEN [chains |-> chains, cur |-> cur]
        ELSE IF cur # <<>>
        THEN [chains |-> chains,
              cur |-> <<[cur[1] EXCEPT !.Rules = @ \o IPTablesParseRuleLine(line)]>>]
        ELSE [chains |-> chains, cur |-> cur]

RECURSIVE ParseChainLines(_, _, _, _)
ParseChainLines(ls, i, chains, cur) ==
    IF i > Len(ls) THEN chains \o cur
    ELSE CHOOSE done \in { ParseChainLines(ls, i + 1, st.chains, st.cur)
                           : st \in {ChainLineStep(ls[i], chains, cur)} } : TRUE

\* parseChainOutput(output)
parseChainOutput(output) == ParseChainLines(ScanLines(output), 1, <<>>, <<>>)

\* The most chains in a listing.
MaxListed == 2

\* The most rules in a listed chain.
MaxListedRules == 2

\* Counters as iptables -v prints them without -x: exact up to 99999, then
\* rounded to thousands with K, M, G and, past 9999G, T.
PrintedCounters == {"0", "253K", "49M", "12G", "15T"}

BuiltinNames == <<"INPUT", "FORWARD", "OUTPUT", "PREROUTING">>

UserNames == <<"DOCKER", "DOCKER-USER", "LOGDROP", "LOGACCEPT">>

\* The chains a listing may show: a built-in chain with policy and counters,
\* or a user-defined chain with its reference count.
ListedChains ==
    { [form |-> "policy", policy |-> "ACCEPT", packets |-> "253K", bytes |-> b, nrules |-> n]
      : b \in PrintedCounters, n \in 0..MaxListedRules }
    \cup { [form |-> "references", policy |-> "-", packets |-> "", bytes |-> "", nrules |-> n]
           : n \in 0..MaxListedRules }

ChainName(c, i) == IF c.form = "policy" THEN BuiltinNames[i] ELSE UserNames[i]

\* The header iptables prints for a chain.
ChainHeaderLine(c, i) ==
    IF c.form = "policy"
    THEN "Chain " \o ChainName(c, i) \o " (policy " \o c.policy \o " " \o c.packets
         \o " packets, " \o c.bytes \o " bytes)"
    ELSE "Chain " \o ChainName(c, i) \o " (1 references)"

ColumnsLine ==
    "num   pkts bytes target     prot opt in     out     source               destination"

\* The line iptables prints for the rule at position num.
ListedRuleLine(num) ==
    Itoa(num) \o "        0     0 ACCEPT     tcp  --  *      *       0.0.0.0/0"
    \o "            0.0.0.0/0            tcp dpt:" \o Itoa(21 + num)

\* iptables -L -n -v --line-numbers: per chain the header, the column titles,
\* the numbered rules and a blank line.
RECURSIVE IptablesListFrom(_, _)
IptablesListFrom(cs, i) ==
    IF i > Len(cs) THEN ""
    ELSE ChainHeaderLine(cs[i], i) \o "\n" \o ColumnsLine \o "\n"
         \o Join([j \in 1..cs[i].nrules |-> ListedRuleLine(j) \o "\n"], "")
         \o "\n" \o IptablesListFrom(cs, i + 1)

IptablesList(cs) == IptablesListFrom(cs, 1)

InitParseChains ==
    /\ IdleFw /\ IdleRt /\ IdleRl /\ IdleSt /\ IdleAr /\ IdleTb /\ IdleCq /\ IdleLc
    /\ fnIn \in { [fn |-> "parseChainOutput", chains |-> cs]
                  : cs \in UNION { [1..n -> ListedChains] : n \in 1..MaxListed } }
    /\ fnOut = NoOutput

\* ListChains hands the tool's listing to parseChainOutput.
PfParseChainOutput ==
    /\ fnIn.fn = "parseChainOutput"
    /\ ~fnOut.done
    /\ fnOut' = [done |-> TRUE, val |-> parseChainOutput(IptablesList(fnIn.chains))]
    /\ UNCHANGED <<fnIn, fwVars, rtVars, rlVars, stVars, arVars, pfRest>>

\* The operations that run the external tool and report its failure: the
\* text their error starts with, and how they capture the tool's output.
CoordinatorOps ==
    { [name |-> "IPTablesService.ListChains", prefix |-> "failed to list chains", capture |-> "Output"],
      [name |-> "IPTablesService.GetChain", prefix |-> "failed to get chain", capture |-> "Output"],
      [name |-> "IPTablesService.GetRawRules", prefix |-> "failed to get rules", capture |-> "Output"],
      [name |-> "IPTablesService.AddRule", prefix |-> "failed to add rule", capture |-> "CombinedOutput"],
      [name |-> "IPTablesService.DeleteRule", prefix |-> "failed to delete rule", capture |-> "CombinedOutput"],
      [name |-> "IPTablesService.SetPolicy", prefix |-> "failed to set policy", capture |-> "CombinedOutput"],
      [name |-> "IPTablesService.CreateChain", prefix |-> "failed to create chain", capture |-> "CombinedOutput"],
      [name |-> "IPTablesService.DeleteChain", prefix |-> "failed to delete chain", capture |-> "CombinedOutput"],
      [name |-> "IPTablesService.FlushChain", prefix |-> "failed to flush chain", capture |-> "CombinedOutput"],
      [name |-> "IPRouteService.ListRoutes", prefix |-> "failed to list routes", capture |-> "Output"],
      [name |-> "IPRouteService.ListAllRoutes", prefix |-> "failed to list all routes", capture |-> "Output"],
      [name |-> "IPRouteService.AddRoute", prefix |-> "failed to add route", capture |-> "CombinedOutput"],
      [name |-> "IPRouteService.DeleteRoute", prefix |-> "failed to delete route", capture |-> "CombinedOutput"],
      [name |-> "IPRouteService.FlushTable", prefix |-> "failed to flush routes", capture |-> "CombinedOutput"],
      [name |-> "IPRuleService.ListRules", prefix |-> "failed to list rules", capture |-> "Output"],
      [name |-> "IPRuleService.AddRule", prefix |-> "failed to add rule", capture |-> "CombinedOutput"],
      [name |-> "IPRuleService.DeleteRule", prefix |-> "failed to delete rule", capture |-> "CombinedOutput"] }

\* What a run of the tool leaves: exit status, standard output, standard error.
ToolOutcomes ==
    { [exit |-> 0, stdout |-> "", stderr |-> ""],
      [exit |-> 1, stdout |-> "", stderr |-> "iptables: No chain/target/match by that name.\n"],
      [exit |-> 2, stdout |-> "", stderr |-> "RTNETLINK answers: File exists\n"],
      [exit |-> 4, stdout |-> "Chain INPUT (policy ACCEPT)\n",
       stderr |-> "iptables: Resource temporarily unavailable.\n"] }

\* The tool's combined output.
CombinedOutput(o) == o.stdout \o o.stderr

\* (*exec.ExitError).Error()
ExitErrorText(o) == "exit status " \o Itoa(o.exit)

\* cmd.Output() and fmt.Errorf("<prefix>: %w", err): the error wraps the exit
\* status; the tool's text is not part of it.
ErrorFromOutput(op, o) ==
    IF o.exit = 0 THEN "nil" ELSE op.prefix \o ": " \o ExitErrorText(o)

\* cmd.CombinedOutput() and fmt.Errorf("<prefix>: %s", string(output)).
ErrorFromCombinedOutput(op, o) ==
    IF o.exit = 0 THEN "nil" ELSE op.prefix \o ": " \o CombinedOutput(o)

InitToolErrors ==
    /\ IdleFw /\ IdleRt /\ IdleRl /\ IdleSt /\ IdleAr /\ IdleTb /\ IdleCq /\ IdleLc
    /\ fnIn \in { [fn |-> "coordinator", op |-> op, tool |-> o]
                  : op \in CoordinatorOps, o \in ToolOutcomes }
    /\ fnOut = NoOutput

\* A read operation: list, get.
PfRunOutput ==
    /\ fnIn.fn = "coordinator" /\ fnIn.op.capture = "Output"
    /\ ~fnOut.done
    /\ fnOut' = [done |-> TRUE, val |-> ErrorFromOutput(fnIn.op, fnIn.tool)]
    /\ UNCHANGED <<fnIn, fwVars, rtVars, rlVars, stVars, arVars, pfRest>>

\* A mutation: add, delete, flush, create or delete chain, set policy.
PfRunCombinedOutput ==
    /\ fnIn.fn = "coordinator" /\ fnIn.op.capture = "CombinedOutput"
    /\ ~fnOut.done
    /\ fnOut' = [done |-> TRUE, val |-> ErrorFromCombinedOutput(fnIn.op, fnIn.tool)]
    /\ UNCHANGED <<fnIn, fwVars, rtVars, rlVars, stVars, arVars, pfRest>>

(***************************************************************************)
(* Chains: the chains of one iptables table, created, filled, flushed and  *)
(* deleted.                                                                *)
(***************************************************************************)
\* The most rules in a chain.
MaxTblRules == 2

BuiltinChains == {"INPUT"}

UserChains == {"LOGDROP", "WEB"}

TblChains == BuiltinChains \cup UserChains

\* The targets of the rules added to a chain: a built-in chain jumps to the
\* user-defined ones, a user-defined chain ends in a verdict.
TargetsOf(c) == IF c \in BuiltinChains THEN {"ACCEPT"} \cup UserChains ELSE {"DROP"}

NoChain == [exists |-> FALSE, rules |-> <<>>]

\* The table after boot: the built-in chain, empty.
FreshTable == [c \in TblChains |-> IF c \in BuiltinChains
                                   THEN [exists |-> TRUE, rules |-> <<>>] ELSE NoChain]

\* Some rule of another chain jumps to c.
Referenced(t, c) ==
    \E d \in TblChains \ {c} : \E i \in 1..Len(t[d].rules) : t[d].rules[i] = c

\* iptables -N <chain>
IptablesNewChain(t, c) ==
    IF t[c].exists THEN [ok |-> FALSE, tbl |-> t]
    ELSE [ok |-> TRUE, tbl |-> [t EXCEPT ![c] = [exists |-> TRUE, rules |-> <<>>]]]

\* iptables -A <chain> -j <target>
IptablesAppend(t, c, target) ==
    IF ~t[c].exists \/ target = c \/ (target \in UserChains /\ ~t[target].exists)
    THEN [ok |-> FALSE, tbl |-> t]
    ELSE [ok |-> TRUE, tbl |-> [t EXCEPT ![c].rules = Append(@, target)]]

\* iptables -F <chain>; toolOk = FALSE is a failure of the tool's own (lock).
IptablesFlush(t, c, toolOk) ==
    IF ~toolOk \/ ~t[c].exists THEN [ok |-> FALSE, tbl |-> t]
    ELSE [ok |-> TRUE, tbl |-> [t EXCEPT ![c].rules = <<>>]]

\* iptables -X <chain>: the tool refuses a built-in chain, a chain that still
\* has rules and a chain some rule jumps to.
IptablesDeleteChain(t, c) ==
    IF \/ ~t[c].exists \/ c \in BuiltinChains
       \/ t[c].rules # <<>> \/ Referenced(t, c)
    THEN [ok |-> FALSE, tbl |-> t]
    ELSE [ok |-> TRUE, tbl |-> [t EXCEPT ![c] = NoChain]]

CreateChain(t, c) ==
    LET r == IptablesNewChain(t, c)
    IN  [tbl |-> r.tbl, err |-> IF r.ok THEN "nil" ELSE "failed to create chain"]

FlushChain(t, c, toolOk) ==
    LET r == IptablesFlush(t, c, toolOk)
    IN  [tbl |-> r.tbl, err |-> IF r.ok THEN "nil" ELSE "failed to flush chain"]

\* DeleteChain(table, chain): -F <chain> with its result dropped, then
\* -X <chain> with its failure returned.
DeleteChain(t, c, flushOk) ==
    LET flushed == IptablesFlush(t, c, flushOk).tbl
        r == IptablesDeleteChain(flushed, c)
    IN  [tbl |-> r.tbl, err |-> IF r.ok THEN "nil" ELSE "failed to delete chain"]

\* What the chain operations leave alone.
tbRest == <<fwVars, rtVars, rlVars, stVars, arVars, pfVars, cqVars, lcVars>>

\* What a chain operation records: the chain, the error, and what the chain
\* was like before the call.
ChainOp(op, t, c, r) ==
    [op |-> op, chain |-> c, err |-> r.err, existed |-> t[c].exists,
     hadRules |-> t[c].rules # <<>>, wasReferenced |-> Referenced(t, c),
     rules |-> t[c].rules]

InitChains ==
    /\ IdleFw /\ IdleRt /\ IdleRl /\ IdleSt /\ IdleAr /\ IdlePf /\ IdleCq /\ IdleLc
    /\ tbl = FreshTable
    /\ tblOp = [op |-> "none"]

TbCreateChain ==
    \E c \in UserChains :
        \E r \in {CreateChain(tbl, c)} :
            /\ tbl' = r.tbl
            /\ tblOp' = ChainOp("CreateChain", tbl, c, r)
            /\ UNCHANGED tbRest

\* IPTablesService.AddRule appending a rule with the given target.
TbAddRule ==
    \E c \in TblChains : \E target \in TargetsOf(c) :
        /\ Len(tbl[c].rules) < MaxTblRules
        /\ \E a \in {IptablesAppend(tbl, c, target)} :
              /\ tbl' = a.tbl
              /\ tblOp' = ChainOp("AddRule", tbl, c,
                                  [err |-> IF a.ok THEN "nil" ELSE "failed to add rule"])
        /\ UNCHANGED tbRest

TbFlushChain ==
    \E c \in TblChains, toolOk \in BOOLEAN :
        \E r \in {FlushChain(tbl, c, toolOk)} :
            /\ tbl' = r.tbl
            /\ tblOp' = ChainOp("FlushChain", tbl, c, r)
            /\ UNCHANGED tbRest

TbDeleteChain ==
    \E c \in TblChains, flushOk \in BOOLEAN :
        \E r \in {DeleteChain(tbl, c, flushOk)} :
            /\ tbl' = r.tbl
            /\ tblOp' = ChainOp("DeleteChain", tbl, c, r)
            /\ UNCHANGED tbRest

(***************************************************************************)
(* Requests: the HTTP requests against one chain.  net/http runs every     *)
(* request in a goroutine of its own and no handler or service takes a     *)
(* lock, so the steps of different requests interleave freely.             *)
(***************************************************************************)
\* The most requests in flight at once.
MaxInflight == 2

\* The chain the requests address: three rules that differ.
ServedChain == <<"-s 10.0.0.1 -j DROP", "-s 10.0.0.2 -j DROP", "-s 10.0.0.3 -j DROP">>

\* What the request steps leave alone.
cqRest == <<fwOp, rtVars, rlVars, stVars, arVars, pfVars, tbVars, lcVars>>

InitRequests ==
    /\ IdleRt /\ IdleRl /\ IdleSt /\ IdleAr /\ IdlePf /\ IdleTb /\ IdleLc
    /\ chain = ServedChain
    /\ fwOp = [op |-> "none", from |-> 0, to |-> 0, pre |-> <<>>,
               err |-> "nil", cmds |-> <<>>, delOk |-> TRUE]
    /\ reqs = <<>>

\* A list-then-mutate sequence starts: the server accepts a MoveRule request,
\* or a client opens the rule list to delete the rule at a position.
CqAccept ==
    \E kind \in {"MoveRule", "DeleteRule"}, num \in 1..Len(ServedChain) :
        /\ Len(reqs) < MaxInflight
        /\ reqs' = Append(reqs, [kind |-> kind, num |-> num, step |-> "list",
                                 listing |-> <<>>, removed |-> "", err |-> "nil"])
        /\ UNCHANGED <<chain, cqRest>>

\* The listing step: MoveRule's GetChain and position check, or the GetChain
\* behind the page the client deletes from.
CqList ==
    \E i \in 1..Len(reqs) :
        /\ reqs[i].step = "list"
        /\ LET rules == GetChain(chain).Rules
               valid == reqs[i].num >= 1 /\ reqs[i].num <= Len(rules)
           IN  reqs' = [reqs EXCEPT ![i] =
                           [@ EXCEPT !.listing = rules,
                                     !.step = IF valid THEN "delete" ELSE "done",
                                     !.err = IF valid THEN "nil" ELSE "invalid source position"]]
        /\ UNCHANGED <<chain, cqRest>>

\* The mutation step: DeleteRule(table, chain, num) with the position of the
\* listing.
CqDelete ==
    \E i \in 1..Len(reqs) :
        /\ reqs[i].step = "delete"
        /\ \E r \in {DeleteRule(chain, reqs[i].num, TRUE)} :
              /\ chain' = r.chain
              /\ reqs' = [reqs EXCEPT ![i] =
                             [@ EXCEPT !.step = "done", !.err = r.err,
                                       !.removed = IF r.err = "nil" THEN chain[reqs[i].num]
                                                   ELSE ""]]
        /\ UNCHANGED cqRest

(***************************************************************************)
(* Lifecycle: main() restores the three domains one after the other, then  *)
(* serves; the save handlers run in the goroutines of their requests.      *)
(***************************************************************************)
\* The most save requests the server is given.
MaxSavers == 2

\* The domains in the order RestoreAll and SaveAll go through them.
DomainOrder == <<"iptables", "routes", "rules">>

\* The save handlers and the domains each one saves, in order.
SaveHandlers ==
    { [name |-> "FirewallHandler.SaveRules", todo |-> <<"iptables">>],
      [name |-> "RoutesHandler.SaveRoutes", todo |-> <<"routes">>],
      [name |-> "RulesHandler.SaveRules", todo |-> <<"rules">>],
      [name |-> "SettingsHandler.SaveAll", todo |-> DomainOrder] }

\* main() before the call of RestoreAll.
Started == [main |-> "init", idx |-> 1, running |-> FALSE, saves |-> <<>>]

\* A server that takes requests from the start of main().
AcceptingFromStart(l) == l.main # "off"

\* Requests reach a handler once main() is in http.ListenAndServe.
Accepting(l) == l.main = "serving"

\* What the lifecycle steps leave alone.
lcRest == <<fwVars, rtVars, rlVars, stVars, arVars, pfVars, tbVars, cqVars>>

InitLifecycle ==
    /\ IdleFw /\ IdleRt /\ IdleRl /\ IdleSt /\ IdleAr /\ IdlePf /\ IdleTb /\ IdleCq
    /\ life = Started

\* main() calls RestoreAll.
LcRestoreAll ==
    /\ life.main = "init"
    /\ life' = [life EXCEPT !.main = "restore"]
    /\ UNCHANGED lcRest

\* RestoreAll enters the Restore of its next domain.
LcRestoreBegin ==
    /\ life.main = "restore" /\ ~life.running /\ life.idx <= Len(DomainOrder)
    /\ life' = [life EXCEPT !.running = TRUE]
    /\ UNCHANGED lcRest

\* That Restore returns (its error, if any, is collected), and RestoreAll
\* goes on; after the last domain main() sets up the router.
LcRestoreEnd ==
    /\ life.main = "restore" /\ life.running
    /\ life' = [life EXCEPT !.running = FALSE, !.idx = @ + 1,
                            !.main = IF life.idx = Len(DomainOrder) THEN "setup" ELSE @]
    /\ UNCHANGED lcRest

\* main() reaches http.ListenAndServe.
LcListen ==
    /\ life.main = "setup"
    /\ life' = [life EXCEPT !.main = "serving"]
    /\ UNCHANGED lcRest

\* A save request reaches its handler.
LcAccept ==
    \E h \in SaveHandlers :
        /\ Accepting(life)
        /\ Len(life.saves) < MaxSavers
        /\ life' = [life EXCEPT !.saves = Append(@, [handler |-> h.name, todo |-> h.todo,
                                                     running |-> FALSE])]
        /\ UNCHANGED lcRest

\* The handler enters the Save of its next domain.
LcSaveBegin ==
    \E i \in 1..Len(life.saves) :
        /\ life.saves[i].todo # <<>> /\ ~life.saves[i].running
        /\ life' = [life EXCEPT !.saves[i].running = TRUE]
        /\ UNCHANGED lcRest

\* That Save returns; SaveAll goes on to the next domain whatever it returned.
LcSaveEnd ==
    \E i \in 1..Len(life.saves) :
        /\ life.saves[i].running
        /\ life' = [life EXCEPT !.saves[i].running = FALSE, !.saves[i].todo = Tail(@)]
        /\ UNCHANGED lcRest

\* The columns of one rule of the verbose numbered listing.
ListedRuleColumns ==
    { [num |-> n, pkts |-> p, bytes |-> b, target |-> "ACCEPT", prot |-> "tcp", opt |-> "--",
       in |-> i, out |-> o, source |-> s, destination |-> "10.9.0.0/16", extra |-> x]
      : n \in 1..2, p \in {"0", "17", "253K", "49M"}, b \in {"0", "1024", "12G"},
        i \in {"*", "eth0"}, o \in {"*", "eth1"}, s \in {"0.0.0.0/0", "10.0.0.0/24"},
        x \in {"", "tcp dpt:22"} }

\* The line iptables -L -n -v --line-numbers prints for these columns.
VerboseRuleLine(c) ==
    Itoa(c.num) \o "     " \o c.pkts \o "  " \o c.bytes \o " " \o c.target \o "     "
    \o c.prot \o "  " \o c.opt \o "  " \o c.in \o "      " \o c.out \o "       "
    \o c.source \o "            " \o c.destination
    \o (IF c.extra = "" THEN "" ELSE "          " \o c.extra)

InitParseFwRule ==
    /\ IdleFw /\ IdleRt /\ IdleRl /\ IdleSt /\ IdleAr /\ IdleTb /\ IdleCq /\ IdleLc
    /\ fnIn \in { [fn |-> "parseRuleLine", cols |-> c] : c \in ListedRuleColumns }
    /\ fnOut = NoOutput

\* parseChainOutput hands a rule line to parseRuleLine.
PfParseFwRuleLine ==
    /\ fnIn.fn = "parseRuleLine"
    /\ ~fnOut.done
    /\ fnOut' = [done |-> TRUE, val |-> IPTablesParseRuleLine(VerboseRuleLine(fnIn.cols))]
    /\ UNCHANGED <<fnIn, fwVars, rtVars, rlVars, stVars, arVars, pfRest>>

\* IPRouteService.AddRoute reaches exec.Command unless it returns at its
\* destination check.
AddRouteRuns(input) == input.Destination # ""

\* The RouteInput the handler builds from the form.
FormRouteInput(form) ==
    [Destination |-> TrimSpace(form.destination), Gateway |-> TrimSpace(form.gateway),
     Interface |-> TrimSpace(form.interface), Metric |-> Atoi(form.metric),
     Table |-> form.table]

\* A RoutesHandler.AddRoute without the gateway-or-interface check.
RoutesHandlerAddRouteUnchecked(k, ds, form) ==
    LET input == FormRouteInput(form)
        r == AddRoute(k, ds, input)
    IN  IF input.Destination = ""
        THEN [k |-> k, alert |-> "Destination is required", ran |-> FALSE]
        ELSE [k |-> r.k, ran |-> AddRouteRuns(input),
              alert |-> IF r.err = "nil" THEN "Route added successfully"
                        ELSE "Failed to add route: " \o r.err]

\* RoutesHandler.AddRoute: build the input, check it, call the service.
RoutesHandlerAddRoute(k, ds, form) ==
    LET input == FormRouteInput(form)
        r == AddRoute(k, ds, input)
    IN  IF input.Destination = ""
        THEN [k |-> k, alert |-> "Destination is required", ran |-> FALSE]
        ELSE IF input.Gateway = "" /\ input.Interface = ""
        THEN [k |-> k, alert |-> "Gateway or interface is required", ran |-> FALSE]
        ELSE [k |-> r.k, ran |-> AddRouteRuns(input),
              alert |-> IF r.err = "nil" THEN "Route added successfully"
                        ELSE "Failed to add route: " \o r.err]

\* The add-route forms a client posts.
RouteForms ==
    { [destination |-> d, gateway |-> g, interface |-> i, metric |-> m, table |-> t]
      : d \in {"", "  ", "10.1.0.0/16", " default "}, g \in {"", " ", "10.0.0.1"},
        i \in {"", "eth0", "eth9"}, m \in {"", "100"}, t \in {"", "custom1"} }

InitAddRouteForm ==
    /\ IdleFw /\ IdleRt /\ IdleRl /\ IdleSt /\ IdleAr /\ IdleTb /\ IdleCq /\ IdleLc
    /\ fnIn \in { [fn |-> "RoutesHandler.AddRoute", form |-> f] : f \in RouteForms }
    /\ fnOut = NoOutput

\* POST /routes on a machine with the boot-time routes.
PfRoutesHandlerAddRoute ==
    /\ fnIn.fn = "RoutesHandler.AddRoute"
    /\ ~fnOut.done
    /\ fnOut' = [done |-> TRUE,
                 val |-> RoutesHandlerAddRoute(KernelRoutes, AllDevs, fnIn.form)]
    /\ UNCHANGED <<fnIn, fwVars, rtVars, rlVars, stVars, arVars, pfRest>>

LowerLetters == "abcdefghijklmnopqrstuvwxyz"

UpperLetters == "ABCDEFGHIJKLMNOPQRSTUVWXYZ"

UpperChar(c) ==
    IF \E i \in 1..Len(LowerLetters) : SubSeq(LowerLetters, i, i) = c
    THEN LET i == CHOOSE i \in 1..Len(LowerLetters) : SubSeq(LowerLetters, i, i) = c
         IN  SubSeq(UpperLetters, i, i)
    ELSE c

\* strings.ToUpper on ASCII text.
RECURSIVE ToUpper(_)
ToUpper(s) == IF s = "" THEN "" ELSE UpperChar(SubSeq(s, 1, 1)) \o ToUpper(SubSeq(s, 2, Len(s)))

\* The chains of the table with their policies; "-" for a user-defined chain.
BootPolicies == [c \in {"INPUT", "FORWARD", "LOGDROP"} |-> IF c = "LOGDROP" THEN "-" ELSE "ACCEPT"]

\* iptables -t <table> -P <chain> <policy>: built-in chains take ACCEPT or
\* DROP; the tool refuses anything else.
IptablesSetPolicy(pols, name, policy, toolOk) ==
    IF toolOk /\ pols[name] # "-" /\ policy \in {"ACCEPT", "DROP"}
    THEN [ok |-> TRUE, pols |-> [pols EXCEPT ![name] = policy]]
    ELSE [ok |-> FALSE, pols |-> pols]

\* A SetPolicy that hands every value to the tool.
SetPolicyWithoutValidation(pols, table, name, policy, toolOk) ==
    LET t == IF table = "" THEN "filter" ELSE table
        p == ToUpper(policy)
        r == IptablesSetPolicy(pols, name, p, toolOk)
    IN  [pols |-> r.pols, cmds |-> <<<<"iptables", "-t", t, "-P", name, p>>>>,
         err |-> IF r.ok THEN "nil" ELSE "failed to set policy"]

\* SetPolicy(table, chain, policy)
SetPolicy(pols, table, name, policy, toolOk) ==
    LET t == IF table = "" THEN "filter" ELSE table
        p == ToUpper(policy)
        r == IptablesSetPolicy(pols, name, p, toolOk)
    IN  IF p # "ACCEPT" /\ p # "DROP" /\ p # "REJECT"
        THEN [pols |-> pols, cmds |-> <<>>, err |-> "invalid policy: " \o p]
        ELSE [pols |-> r.pols, cmds |-> <<<<"iptables", "-t", t, "-P", name, p>>>>,
              err |-> IF r.ok THEN "nil" ELSE "failed to set policy"]

\* The policy values a client posts.
PolicyWords == {"accept", "ACCEPT", "Drop", "DROP", "reject", "REJECT", "", "LOG", "allow", "drop "}

InitSetPolicy ==
    /\ IdleFw /\ IdleRt /\ IdleRl /\ IdleSt /\ IdleAr /\ IdleTb /\ IdleCq /\ IdleLc
    /\ fnIn \in { [fn |-> "SetPolicy", table |-> t, chain |-> c, policy |-> p, toolOk |-> ok]
                  : t \in {"", "filter", "nat"}, c \in DOMAIN BootPolicies,
                    p \in PolicyWords, ok \in BOOLEAN }
    /\ fnOut = NoOutput

\* FirewallHandler.SetPolicy calls the service.
PfSetPolicy ==
    /\ fnIn.fn = "SetPolicy"
    /\ ~fnOut.done
    /\ fnOut' = [done |-> TRUE,
                 val |-> SetPolicy(BootPolicies, fnIn.table, fnIn.chain, fnIn.policy,
                                   fnIn.toolOk)]
    /\ UNCHANGED <<fnIn, fwVars, rtVars, rlVars, stVars, arVars, pfRest>>

(***************************************************************************)
(* Specifications, one per domain.                                         *)
(***************************************************************************)
\* Everything at rest: empty chain and tables, the boot-time rules, an empty
\* store, no server.
Idle == IdleFw /\ IdleRt /\ IdleRl /\ IdleSt /\ IdleAr /\ IdleXt

NextFw == FwAddRule \/ FwDeleteRule \/ FwMoveRule

SpecFirewall == Idle /\ [][NextFw]_vars

NextRt == RtEnvAdd \/ RtAddRoute \/ RtDeleteRoute \/ RtFlush \/ RtSaveRoutes \/ RtRestoreRoutes

SpecRoutes == Idle /\ [][NextRt]_vars

NextRl == RlEnvAdd \/ RlEnvDelete \/ RlAddRule \/ RlSaveRules \/ RlRestoreRules

SpecRules == Idle /\ [][NextRl]_vars

NextSt == StRestoreAll \/ StListen \/ StAddRoute \/ StSaveAll

InitStartup == Boot /\ IdleAr /\ IdleXt

SpecStartup == InitStartup /\ [][NextSt]_vars

NextAr == ArPutFile \/ ArExport \/ ArWipe \/ ArUpload \/ ArImport

SpecArchive == Idle /\ [][NextAr]_vars

NextCounter == PfParseCounter

SpecCounter == InitCounter /\ [][NextCounter]_vars

NextParseRoute == PfParseRouteLine

SpecParseRoute == InitParseRoute /\ [][NextParseRoute]_vars

NextParseRule == PfParseRuleLine

SpecParseRule == InitParseRule /\ [][NextParseRule]_vars

NextBuilder == PfBuildRuleArgs \/ PfBuildIPRuleArgs

SpecBuilder == InitBuilder /\ [][NextBuilder]_vars

NextParseChains == PfParseChainOutput

SpecParseChains == InitParseChains /\ [][NextParseChains]_vars

NextToolErrors == PfRunOutput \/ PfRunCombinedOutput

SpecToolErrors == InitToolErrors /\ [][NextToolErrors]_vars

NextChains == TbCreateChain \/ TbAddRule \/ TbFlushChain \/ TbDeleteChain

SpecChains == InitChains /\ [][NextChains]_vars

NextRequests == CqAccept \/ CqList \/ CqDelete

SpecRequests == InitRequests /\ [][NextRequests]_vars

NextLifecycle ==
    \/ LcRestoreAll \/ LcRestoreBegin \/ LcRestoreEnd \/ LcListen
    \/ LcAccept \/ LcSaveBegin \/ LcSaveEnd

SpecLifecycle == InitLifecycle /\ [][NextLifecycle]_vars

NextParseFwRule == PfParseFwRuleLine

SpecParseFwRule == InitParseFwRule /\ [][NextParseFwRule]_vars

NextAddRouteForm == PfRoutesHandlerAddRoute

SpecAddRouteForm == InitAddRouteForm /\ [][NextAddRouteForm]_vars

NextSetPolicy == PfSetPolicy

SpecSetPolicy == InitSetPolicy /\ [][NextSetPolicy]_vars

NextRuleDelete == RlEnvAdd \/ RlEnvDelete \/ RlAddRule \/ RlDeleteByPriority

SpecRuleDelete == Idle /\ [][NextRuleDelete]_vars

(***************************************************************************)
(* Claims                                                                  *)
(***************************************************************************)
\* The chain a correct move of position from to position to produces.
Moved(c, from, to) == InsertAt(RemoveAt(c, from), to, c[from])

MoveSucceeded ==
    /\ fwOp.op = "move"
    /\ fwOp.err = "nil"
    /\ fwOp.from >= 1 /\ fwOp.from <= Len(fwOp.pre)
    /\ fwOp.to >= 1 /\ fwOp.to <= Len(fwOp.pre)

\* C1: after a successful MoveRule(from, to) with 1 <= from, to <= n the chain
\* holds the same n rule specifications, the moved rule at the destination and
\* the others in their former relative order.
C1_MovePreservesRules ==
    MoveSucceeded => chain = Moved(fwOp.pre, fwOp.from, fwOp.to)

DeleteFailedInMove ==
    /\ fwOp.op = "move"
    /\ Len(fwOp.cmds) = 2
    /\ fwOp.cmds[2].op = "D"
    /\ ~fwOp.delOk

\* C8: when the delete at the source position fails, MoveRule returns the
\* delete's error, has issued no insert, and the chain is as before the call;
\* whenever MoveRule returns an error it has issued nothing after the failing
\* invocation (no rollback command).
C8_MoveDeleteFailure ==
    /\ DeleteFailedInMove =>
          /\ fwOp.err = "failed to delete rule"
          /\ \A i \in 1..Len(fwOp.cmds) : fwOp.cmds[i].op \notin {"I", "A"}
          /\ chain = fwOp.pre
    /\ (fwOp.op = "move" /\ fwOp.err # "nil") =>
          /\ Len(fwOp.cmds) <= 2
          /\ \A i \in 1..Len(fwOp.cmds) : fwOp.cmds[i].op \in {"L", "D"}
          /\ (fwOp.err = "failed to delete rule") =
                (Len(fwOp.cmds) = 2 /\ ~fwOp.delOk)

C8_Witness ==
    /\ DeleteFailedInMove
    /\ Len(fwOp.pre) >= 2
    /\ fwOp.from >= 1 /\ fwOp.from <= Len(fwOp.pre)
    /\ fwOp.to # fwOp.from
    /\ fwOp.err = "failed to delete rule"

\* What the snapshot is meant to leave out, read off the kernel's own route
\* attributes: kernel-generated link/host routes and local/broadcast routes.
Savable(r) ==
    /\ ~(r.Proto = "kernel" /\ r.Scope \in {"link", "host"})
    /\ r.Type \notin {"local", "broadcast"}

SavableOf(k, t) ==
    LET keep(r) == r.Table = t /\ Savable(r)
    IN  SelectSeq(SortRoutes(k), keep)

\* The line was built from route r: it carries r's gateway, device and metric,
\* and r's prefix when r is a unicast route.
LineIsFor(line, r) ==
    LET parts == Fields(line)
    IN  /\ ValueAfter(parts, "via") = r.Gateway
        /\ ValueAfter(parts, "dev") = r.Dev
        /\ Atoi(ValueAfter(parts, "metric")) = r.Metric
        /\ (r.Type = "unicast" => parts[1] = r.Dst)

SaveSucceeded == rtOp.op = "save" /\ rtOp.err = "nil"

LineSet(file) == {ScanLines(file.content)[i] : i \in 1..Len(ScanLines(file.content))}

\* C5: a route snapshot replayed twice into empty tables and snapshotted again
\* gives, for every file of the original snapshot, a file with the same set
\* of lines.
C5_IdempotentRouteRestore ==
    rtScen.phase = 5 =>
        \A t \in RouteTables :
            rtScen.orig[t].exists =>
                /\ routeFiles[t].exists
                /\ LineSet(routeFiles[t]) = LineSet(rtScen.orig[t])

RuleSaveSucceeded == rlOp.op = "save" /\ rlOp.err = "nil"

LinePriority(line) == Atoi(ValueAfter(Fields(line), "priority"))

SavedRuleLines == ScanLines(ruleFile.content)

\* C9: the file a successful SaveRules writes holds no line for priority 0,
\* 32766 or 32767, and for every other priority as many lines as there are
\* live rules of that priority (one line per rule).
C9_ReservedPrioritiesExcluded ==
    RuleSaveSucceeded =>
        /\ ruleFile.exists
        /\ \A i \in 1..Len(SavedRuleLines) :
               LinePriority(SavedRuleLines[i]) \notin {0, 32766, 32767}
        /\ \A r \in krules :
               r.Priority \notin {0, 32766, 32767} =>
                   Cardinality({i \in 1..Len(SavedRuleLines) :
                                   LinePriority(SavedRuleLines[i]) = r.Priority})
                     = Cardinality({x \in krules : x.Priority = r.Priority})
        /\ Len(SavedRuleLines) =
               Cardinality({x \in krules : x.Priority \notin {0, 32766, 32767}})

C9_Witness ==
    /\ RuleSaveSucceeded
    /\ DefaultRules \subseteq krules
    /\ Cardinality({x \in krules : x.Priority = 100}) = 2
    /\ Len(SavedRuleLines) = 2

RestoreLog == restoreOp.log

IsCall(e) == e.kind = "call"

IsReturn(e) == e.kind = "return"

CalledDomains == LET calls == SelectSeq(RestoreLog, IsCall)
                 IN  [i \in 1..Len(calls) |-> calls[i].domain]

\* Every event of domain d that runs a command lies after the return of
\* domain before.
RunsAfterReturn(d, before) ==
    \A i \in 1..Len(RestoreLog) :
        (RestoreLog[i].domain = d /\ RestoreLog[i].kind \in {"add", "exec", "read"}) =>
            \E j \in 1..(i - 1) :
                RestoreLog[j].domain = before /\ RestoreLog[j].kind = "return"

\* C2: the startup restore has run exactly once by the time the server
\* listens and before any request is served, never twice; it calls the
\* firewall restore, then the route restore, then the rule restore; no route
\* add is run before the firewall restore has returned and no rule add before
\* the route restore has returned.
C2_RestoreOnceInOrder ==
    /\ restoreOp.count <= 1
    /\ (pc = "boot" => restoreOp.count = 0 /\ served = 0)
    /\ (pc \in {"restored", "serving"} => restoreOp.count = 1)
    /\ (served > 0 => pc = "serving" /\ restoreOp.count = 1)
    /\ (restoreOp.count = 1 =>
           /\ CalledDomains = <<"iptables", "routes", "rules">>
           /\ RunsAfterReturn("routes", "iptables")
           /\ RunsAfterReturn("rules", "routes"))

C2_Witness ==
    /\ pc = "serving"
    /\ served > 0
    /\ \E i \in 1..Len(RestoreLog) :
           RestoreLog[i].domain = "iptables" /\ RestoreLog[i].kind = "exec"
    /\ \E i \in 1..Len(RestoreLog) :
           RestoreLog[i].domain = "routes" /\ RestoreLog[i].kind = "add"
    /\ \E i \in 1..Len(RestoreLog) :
           RestoreLog[i].domain = "rules" /\ RestoreLog[i].kind = "add"

RestoreDomains == {"iptables", "routes", "rules"}

\* The domains whose restore returned an error.
FailedDomains ==
    { d \in RestoreDomains :
        \E i \in 1..Len(RestoreLog) :
            IsReturn(RestoreLog[i]) /\ RestoreLog[i].domain = d /\ RestoreLog[i].result # "nil" }

\* The domains the aggregate names.
NamedDomains ==
    { d \in RestoreDomains :
        \E i \in 1..Len(restoreOp.errors) : HasPrefix(restoreOp.errors[i], d \o ": ") }

\* C3: after RestoreAll every one of the three restores has been called and
\* has returned, whatever the earlier ones returned; the aggregate has one
\* entry per failed domain, names exactly the failed domains, and the
\* returned error is nil exactly when no domain failed.
C3_AllDomainsAttempted ==
    restoreOp.count = 1 =>
        /\ \A d \in RestoreDomains :
               /\ \E i \in 1..Len(RestoreLog) : IsCall(RestoreLog[i]) /\ RestoreLog[i].domain = d
               /\ \E i \in 1..Len(RestoreLog) : IsReturn(RestoreLog[i]) /\ RestoreLog[i].domain = d
        /\ NamedDomains = FailedDomains
        /\ Len(restoreOp.errors) = Cardinality(FailedDomains)
        /\ (restoreOp.err = "nil" <=> FailedDomains = {})
        /\ \A d \in NamedDomains :
               \E parts \in {Split(restoreOp.err, "[")} :
                   Len(parts) = 2 /\ \E k \in 1..Len(parts[2]) :
                       HasPrefix(SubSeq(parts[2], k, Len(parts[2])), d \o ": ")

C3_Witness ==
    /\ restoreOp.count = 1
    /\ FailedDomains = {"iptables", "rules"}
    /\ \E i \in 1..Len(RestoreLog) :
           RestoreLog[i].domain = "routes" /\ RestoreLog[i].kind = "add"
                                           /\ RestoreLog[i].result = "ok"
    /\ \E i \in 1..Len(RestoreLog) :
           RestoreLog[i].domain = "iptables" /\ RestoreLog[i].kind = "exec"
                                             /\ RestoreLog[i].result = "failed"

\* An add that failed for a reason other than "already exists", or a file
\* that could not be read, during route or rule restore.
UnreportableFailure(e) ==
    /\ e.domain \in {"routes", "rules"}
    /\ \/ e.kind = "add" /\ e.result \notin {"ok", "exists"}
       \/ e.kind = "read"

\* C4: every failed add (other than "already exists") and every unreadable
\* file of the route or rule restore is in the report RestoreAll returns: the
\* returned error is not nil and names that domain.
C4_RestoreFailuresReported ==
    restoreOp.count = 1 =>
        \A i \in 1..Len(RestoreLog) :
            UnreportableFailure(RestoreLog[i]) =>
                /\ restoreOp.err # "nil"
                /\ RestoreLog[i].domain \in NamedDomains

ImportDone == arOp.op = "import"

\* C6: after ImportConfig nothing was created or changed outside the store's
\* directory tree, and an archive holding an entry that resolves outside the
\* tree is refused with an error.
C6_ImportStaysInRoot ==
    ImportDone =>
        /\ \A e \in fs : e \notin arOp.pre => InRoot(e.path)
        /\ ((\E i \in 1..Len(archive) : ~InRoot(FilepathJoin(configDir, archive[i].Name)))
               => arOp.err # "nil")

CounterParsed == fnIn.fn = "parseSuffixedNumber" /\ fnOut.done

\* d * 1024^k computed in 128 bits, where nothing is lost.
ExactCounter == TimesKibi(ParseUint(fnIn.digits, 8), SuffixPower(fnIn.suffix))

\* The 64-bit result widened to 128 bits.
WideResult == fnOut.val \o Zero(4)

\* The product d * 1024^k has a 64-bit representation.
FitsUint64 == \A i \in 5..8 : ExactCounter[i] = 0

RouteParsed == fnIn.fn = "parseRouteLine" /\ fnOut.done

HasPair(kw) == \E i \in 1..Len(fnIn.order) : fnIn.order[i] = kw

\* The value a keyword's field must have: the pair's value when the pair is
\* on the line, else the field's default.
Expected(kw, default) == IF HasPair(kw) THEN PairValue[kw] ELSE default

\* C18: a line that begins with broadcast, local or unreachable parses to a
\* route whose Type is that keyword and whose Destination is the token after
\* it.
C18_TypeKeywordExtracted ==
    (RouteParsed /\ fnIn.head[1] \in {"broadcast", "local", "unreachable"}) =>
        /\ fnOut.val.Type = fnIn.head[1]
        /\ fnOut.val.Destination = fnIn.head[2]

\* C19: whatever pairs stand after the destination, in whatever order, and
\* with tokens the parser does not know among them, each field holds its
\* pair's value when the pair is present and its default when not; Table is
\* the queried table unless a table pair is present; a line that starts with
\* a destination keeps it as Destination.
C19_RouteKeywordOrderIndependent ==
    RouteParsed =>
        /\ fnOut.val.Gateway = Expected("via", "")
        /\ fnOut.val.Interface = Expected("dev", "")
        /\ fnOut.val.Protocol = Expected("proto", "")
        /\ fnOut.val.Scope = Expected("scope", "")
        /\ fnOut.val.Source = Expected("src", "")
        /\ fnOut.val.Metric = (IF HasPair("metric") THEN 100 ELSE 0)
        /\ fnOut.val.Table = Expected("table", fnIn.queried)
        /\ (Len(fnIn.head) = 1 => fnOut.val.Destination = fnIn.head[1] /\ fnOut.val.Type = "")

\* "default onlink metric 100 dev eth0 via 10.0.0.1" listed for custom2.
C19_Witness ==
    /\ RouteParsed
    /\ fnIn.head = <<"default">> /\ fnIn.order = <<"metric", "dev", "via">>
    /\ fnIn.flagAt = 1 /\ fnIn.queried = "custom2"
    /\ fnOut.val = [Destination |-> "default", Gateway |-> "10.0.0.1", Interface |-> "eth0",
                    Metric |-> 100, Scope |-> "", Protocol |-> "", Type |-> "",
                    Table |-> "custom2", Source |-> ""]

RuleParsed == fnIn.fn = "parseRuleOutput" /\ fnOut.done

\* C20: a rule line whose selector has no "from" keyword parses to a rule
\* whose From is "all".
C20_AbsentFromDefaultsToAll ==
    (RuleParsed /\ fnIn.from = "") => fnOut.val.From = "all"

HasArg(args, flag) == \E i \in 1..Len(args) : args[i] = flag

FirewallCanonical ==
    (fnIn.fn = "buildRuleArgs" /\ fnOut.done) =>
        /\ fnIn.input.Protocol \in {"", "all"} => ~HasArg(fnOut.val, "-p")
        /\ fnIn.input.Source \in {"", "0.0.0.0/0"} => ~HasArg(fnOut.val, "-s")
        /\ fnIn.input.Destination \in {"", "0.0.0.0/0"} => ~HasArg(fnOut.val, "-d")

IPRuleCanonical ==
    (fnIn.fn = "IPRuleService.AddRule" /\ fnOut.done) =>
        (fnIn.input.From \in {"", "all"} => ~HasArg(fnOut.val, "from"))

\* C15: in every domain, a selector field that is empty or equal to the
\* domain's match-everything value (protocol "all", source/destination
\* "0.0.0.0/0", from "all") contributes no argument to the built invocation.
C15_SelectorsCanonicalized == FirewallCanonical /\ IPRuleCanonical

ChainsParsed == fnIn.fn = "parseChainOutput" /\ fnOut.done

\* The result lists the chains of the listing in order, each with the rules
\* printed under its header, numbered from 1.
ChainsAsListed ==
    /\ Len(fnOut.val) = Len(fnIn.chains)
    /\ \A i \in 1..Len(fnIn.chains) :
          /\ fnOut.val[i].Name = ChainName(fnIn.chains[i], i)
          /\ Len(fnOut.val[i].Rules) = fnIn.chains[i].nrules
          /\ \A j \in 1..Len(fnOut.val[i].Rules) : fnOut.val[i].Rules[j].Num = j

\* C17: a listing with N chain headers parses to N chains in source order,
\* every rule under the chain whose header most recently precedes it, with
\* Num equal to its 1-based order in that chain.
C17_ChainsAndRulesInOrder == ChainsParsed => ChainsAsListed

\* The same, for listings whose header counters are below 9999.5G.
ChainsAsListedUpToGiga ==
    (ChainsParsed /\ \A i \in 1..Len(fnIn.chains) : fnIn.chains[i].bytes # "15T")
        => ChainsAsListed

\* strings.Contains
Contains(s, sub) ==
    \E i \in 1..(Len(s) - Len(sub) + 1) : SubSeq(s, i, i + Len(sub) - 1) = sub

ToolFailed == fnIn.fn = "coordinator" /\ fnOut.done /\ fnIn.tool.exit # 0

\* C13: whenever the tool exits non-zero in a Coordinator operation, the
\* returned error contains the tool's combined output text unmodified.
C13_ErrorCarriesToolOutput ==
    ToolFailed => Contains(fnOut.val, CombinedOutput(fnIn.tool))

\* The same, for the operations that capture the combined output.
MutationErrorCarriesToolOutput ==
    (ToolFailed /\ fnIn.op.capture = "CombinedOutput")
        => Contains(fnOut.val, CombinedOutput(fnIn.tool))

ChainDeleteCalled == tblOp.op = "DeleteChain" /\ tblOp.existed

\* C14: DeleteChain on a chain that still has rules, or that a rule of
\* another chain jumps to, returns an error and leaves the chain in place.
C14_DeleteChainRejectsBusyChain ==
    (ChainDeleteCalled /\ (tblOp.hadRules \/ tblOp.wasReferenced))
        => (tblOp.err # "nil" /\ tbl[tblOp.chain].exists)

\* The part about jumps alone: a chain some rule jumps to is kept.
ReferencedChainKept ==
    (ChainDeleteCalled /\ tblOp.wasReferenced)
        => (tblOp.err # "nil" /\ tbl[tblOp.chain].exists)

\* Request i has listed the chain and not yet run its delete.
InSequence(i) == reqs[i].step = "delete"

OneSequenceAtATime ==
    \A i, j \in 1..Len(reqs) : (InSequence(i) /\ InSequence(j)) => i = j

DeleteRemovesListedRule ==
    \A i \in 1..Len(reqs) :
        (reqs[i].step = "done" /\ reqs[i].removed # "")
            => reqs[i].removed = reqs[i].listing[reqs[i].num].Spec

\* C11: no two list-then-mutate sequences on the same chain are in flight at
\* the same time, and a position-addressed delete removes the rule that held
\* the position in the caller's listing.
C11_ListThenMutateExclusive == OneSequenceAtATime /\ DeleteRemovesListedRule

RestoreInProgress(d) ==
    life.main = "restore" /\ life.running /\ DomainOrder[life.idx] = d

SaveInProgress(d) ==
    \E i \in 1..Len(life.saves) : life.saves[i].running /\ Head(life.saves[i].todo) = d

\* C12: no Save of a domain runs while a Restore of that domain is in
\* progress, and no Restore of a domain runs while a Save of it is.
C12_SaveRestoreNeverInterleave ==
    \A d \in {DomainOrder[k] : k \in 1..Len(DomainOrder)} :
        ~(RestoreInProgress(d) /\ SaveInProgress(d))

\* SaveAll is saving the routes, after the startup restore went through all
\* three domains.
C12_Witness ==
    /\ life.idx > Len(DomainOrder)
    /\ \E i \in 1..Len(life.saves) :
          /\ life.saves[i].handler = "SettingsHandler.SaveAll"
          /\ life.saves[i].running /\ Head(life.saves[i].todo) = "routes"

FwRuleParsed == fnIn.fn = "parseRuleLine" /\ fnOut.done /\ fnOut.val # <<>>

\* C23: the packet and byte counters of a rule line are decoded with the
\* 1024-based K/M/G convention of the chain-header counters.
C23_RuleCountersSuffixed ==
    FwRuleParsed =>
        /\ fnOut.val[1].Packets = parseSuffixedNumber(fnIn.cols.pkts)
        /\ fnOut.val[1].Bytes = parseSuffixedNumber(fnIn.cols.bytes)

\* C30: the parsed rule has each field from the column of its name, and Extra
\* is the text after the destination column.
C30_RuleColumnsMapped ==
    FwRuleParsed =>
        /\ fnOut.val[1].In = fnIn.cols.in
        /\ fnOut.val[1].Out = fnIn.cols.out
        /\ fnOut.val[1].Source = fnIn.cols.source
        /\ fnOut.val[1].Destination = fnIn.cols.destination
        /\ fnOut.val[1].Extra = fnIn.cols.extra

AddRouteAnswered == fnIn.fn = "RoutesHandler.AddRoute" /\ fnOut.done

IncompleteRouteForm ==
    \/ TrimSpace(fnIn.form.destination) = ""
    \/ TrimSpace(fnIn.form.gateway) = "" /\ TrimSpace(fnIn.form.interface) = ""

\* C21: an add-route intent with an empty destination, or with neither
\* gateway nor interface, gets a validation error, runs no tool invocation
\* and leaves the routes as they were.
C21_IncompleteRouteRejected ==
    (AddRouteAnswered /\ IncompleteRouteForm) =>
        /\ ~fnOut.val.ran
        /\ fnOut.val.alert \in {"Destination is required", "Gateway or interface is required"}
        /\ fnOut.val.k = KernelRoutes

\* A form with a destination and neither gateway nor interface was answered.
C21_Witness ==
    /\ AddRouteAnswered
    /\ fnIn.form.destination = "10.1.0.0/16"
    /\ fnIn.form.gateway = "" /\ fnIn.form.interface = ""
    /\ fnOut.val.alert = "Gateway or interface is required"

PolicySet == fnIn.fn = "SetPolicy" /\ fnOut.done

\* The upper-cased form of each posted value.
UpperCased(p) ==
    CASE p \in {"accept", "ACCEPT"} -> "ACCEPT"
      [] p \in {"Drop", "DROP"} -> "DROP"
      [] p \in {"reject", "REJECT"} -> "REJECT"
      [] p = "allow" -> "ALLOW"
      [] p = "drop " -> "DROP "
      [] OTHER -> p

\* C22: a policy that is not ACCEPT, DROP or REJECT after upper-casing gets
\* an error, no invocation and unchanged policies; one that is gets exactly
\* one -P invocation carrying the upper-cased value.
C22_SetPolicyValidated ==
    PolicySet =>
        IF UpperCased(fnIn.policy) \in {"ACCEPT", "DROP", "REJECT"}
        THEN fnOut.val.cmds = <<<<"iptables", "-t",
                                  IF fnIn.table = "" THEN "filter" ELSE fnIn.table,
                                  "-P", fnIn.chain, UpperCased(fnIn.policy)>>>>
        ELSE /\ fnOut.val.err # "nil"
             /\ fnOut.val.cmds = <<>>
             /\ fnOut.val.pols = BootPolicies

\* Both cases happened: "LOG" was refused, and "Drop" set a policy.
C22_Witness ==
    /\ PolicySet
    /\ \/ fnIn.policy = "LOG" /\ fnOut.val.err = "invalid policy: LOG"
       \/ fnIn.policy = "Drop" /\ fnOut.val.err = "nil" /\ fnOut.val.pols[fnIn.chain] = "DROP"

\* s with the elements at positions n and n + 1 exchanged.
SwappedAt(s, n) ==
    [i \in 1..Len(s) |-> IF i = n THEN s[n + 1] ELSE IF i = n + 1 THEN s[n] ELSE s[i]]

\* A move request with direction "down" for position n < chain length went
\* through: the handler called MoveRule(n, n + 1) and got nil.
MovedDown ==
    /\ fwOp.op = "move" /\ fwOp.err = "nil"
    /\ fwOp.from >= 1 /\ fwOp.from < Len(fwOp.pre)
    /\ fwOp.to = fwOp.from + 1

\* C24: a successful move "down" of the rule at n exchanges the rules at n and
\* n + 1 and leaves all other rules where they were.
C24_MoveDownSwaps == MovedDown => chain = SwappedAt(fwOp.pre, fwOp.from)

\* MoveRule was called with a source in the chain and a destination outside it.
MoveOutOfRange ==
    /\ fwOp.op = "move"
    /\ fwOp.from >= 1 /\ fwOp.from <= Len(fwOp.pre)
    /\ (fwOp.to < 1 \/ fwOp.to > Len(fwOp.pre))

\* C25: MoveRule with a destination outside 1..n returns an error and leaves
\* the chain as it was.
C25_MoveOutOfRangeRejected == MoveOutOfRange => (fwOp.err # "nil" /\ chain = fwOp.pre)

\* C26: after a successful SaveRoutes the route files hold lines for the
\* routes live at that save and no others; the file of a table whose last
\* savable route was deleted holds no line a later RestoreRoutes would add.
C26_FilesReflectLastSave ==
    SaveSucceeded =>
        \A t \in RouteTables :
            Len(SelectSeq(ScanLines(routeFiles[t].content), ReplayLine))
                = Len(SavableOf(kroutes, t))

\* C27: when DeleteChain returns an error, the rules of the chain are the
\* ones it had before the call.
C27_FailedDeleteKeepsRules ==
    (tblOp.op = "DeleteChain" /\ tblOp.err # "nil")
        => tbl[tblOp.chain].rules = tblOp.rules

DeleteByPriorityReturned == rlOp.op = "delete"

\* The rules with priority p among the rules k.
WithPriority(k, p) == {r \in k : r.Priority = p}

NotFoundError(p) == "rule with priority " \o Itoa(p) \o " not found"

\* A successful DeleteByPriority(p) removed exactly one rule, of priority p.
DeleteRemovesOneOfPriority ==
    (DeleteByPriorityReturned /\ rlOp.err = "nil")
        => /\ krules \subseteq rlOp.pre
           /\ Cardinality(rlOp.pre \ krules) = 1
           /\ rlOp.pre \ krules \subseteq WithPriority(rlOp.pre, rlOp.priority)

\* C28 as stated: for every priority p (0 included) a successful
\* DeleteByPriority(p) removes exactly one rule of priority p and no other
\* rule; when no live rule has priority p it returns the not-found error and
\* runs no delete.
C28_DeleteByPriorityExact ==
    /\ DeleteRemovesOneOfPriority
    /\ (DeleteByPriorityReturned /\ WithPriority(rlOp.pre, rlOp.priority) = {})
           => /\ rlOp.err = NotFoundError(rlOp.priority)
              /\ rlOp.cmds = <<>>

\* C28 amended: the same, except that without a live rule of priority p the
\* error is the not-found error when the listing succeeded and the listing
\* error when it failed; no delete runs and no rule changes in either case.
C28_DeleteByPriorityExactWhenListed ==
    /\ DeleteRemovesOneOfPriority
    /\ (DeleteByPriorityReturned /\ WithPriority(rlOp.pre, rlOp.priority) = {})
           => /\ rlOp.err \in {NotFoundError(rlOp.priority), "failed to list rules"}
              /\ rlOp.cmds = <<>>
              /\ krules = rlOp.pre

\* DeleteByPriority(0) removed the local-table rule while a rule of another
\* priority with the same selector was alive.
C28_Witness ==
    /\ DeleteByPriorityReturned /\ rlOp.err = "nil" /\ rlOp.priority = 0
    /\ \E r \in krules : r.Priority # 0 /\ r.From = "all" /\ r.To = ""

ImportFailed == arOp.op = "import" /\ arOp.err # "nil"

\* C29: when ImportConfig returns an error the store's directory tree is the
\* one from before the call: no entry ahead of the failing one was written.
C29_FailedImportLeavesStore ==
    ImportFailed => StoreTree(fs) = StoreTree(arOp.pre)

====
